---- MODULE Spec2Model ----
(***************************************************************************)
(* A model of rudis, an in-memory key-value server speaking RESP v2.       *)
(*                                                                         *)
(*   - the RESP frame codec (src/src/frame.rs): Frame::parse and           *)
(*     Frame::serialize over byte sequences;                               *)
(*   - the keyspace (src/src/dbms.rs): a shard-locked map with lazy        *)
(*     expiration, and the string / hash commands run against it;          *)
(*   - the connection handler (src/src/client.rs);                         *)
(*   - the RDB snapshot encoder / decoder and the background-save          *)
(*     coordination (src/src/rdb.rs, src/src/command.rs).                  *)
(*                                                                         *)
(* Bytes are integers 0..255, byte strings are sequences of them, and a    *)
(* cursor position is 0-based as in std::io::Cursor: the byte under        *)
(* cursor position p of buffer b is b[p + 1].                              *)
(***************************************************************************)
EXTENDS Integers, Sequences, FiniteSets, TLC

VARIABLES
    \* ---- frame codec harness (one connection's read side) ----
    stream,     \* the bytes the peer sends, fixed at Init
    sent,       \* the frames the stream encodes (<<>> for a hand-made stream)
    fed,        \* number of bytes of stream already read from the socket
    buffer,     \* Connection's read buffer: received, not yet consumed
    got,        \* frames returned by read_frame so far
    last,       \* entry position, result and exit position of the last Frame::parse
    rpc,        \* position of the reader: "parse" | "read" | "failed"
    partial,    \* some parse so far found a frame cut short by a chunk boundary
    rt,         \* result of parse(serialize(f)) for the first frame sent, once computed
    \* ---- keyspace and clients ----
    dict,       \* Dict.dict: key -> DictValue, or NoEntry
    locks,      \* the DashMap's shard locks: shard -> [w: holders, r: holders]
    shard_of,   \* the shard each key hashes to, fixed at Init
    now,        \* shared::now_ms()
    pc,         \* client -> where its handler task stands
    cmd,        \* client -> the command it is executing
    loc,        \* client -> locals of the running handler
    replies,    \* client -> the frames written to its connection, with the command
    budget,     \* client -> number of commands its peer has still to send
    db_mutex,   \* holders of the Mutex the hash commands lock (db.lock())
    \* ---- background save ----
    rdb_child_pid,  \* RdbState.rdb_child_pid: None or Some(pid)
    aof_child_pid,  \* AofState.aof_child_pid: None or Some(pid)
    aof_rewrite_scheduled,  \* AofState.aof_rewrite_scheduled
    child,          \* the forked processes, by pid: their copy of memory and progress
    rdb_file,       \* what the snapshot process has written to the dump file
    last_save_time, \* RdbState.last_save_time
    \* ---- snapshot encoder / decoder ----
    rdb_src,    \* the keyspace handed to Server::save, and the two clock readings
    rdb_bytes,  \* the bytes save wrote
    rdb_out,    \* what Server::load made of them
    ID,         \* the process-global counter DatabaseRef::new draws from
    dbs,        \* Server.dbs: None before the server is made, then Some(index)
    \* ---- connection handler ----
    index,      \* client -> Client.index, the database it has selected
    recv,       \* client -> what read_frame has returned to its handler, in order:
                \* frames, and the bytes it failed on
    quit_ch,    \* client -> whether its broadcast::Receiver holds a shutdown signal
    config,     \* Server.config: the fields behind the RwLock, and the working directory
    cfg_guards  \* the clients that hold a read guard of the config RwLock

frameVars == <<stream, sent, fed, buffer, got, last, rpc, partial, rt>>

kvVars == <<dict, locks, shard_of, now, pc, cmd, loc, replies, budget, db_mutex>>

bgVars == <<rdb_child_pid, aof_child_pid, aof_rewrite_scheduled, child, rdb_file, last_save_time>>

rdbVars == <<rdb_src, rdb_bytes, rdb_out, ID, dbs>>

connVars == <<index, recv, quit_ch, config, cfg_guards>>

vars == <<frameVars, kvVars, bgVars, rdbVars, connVars>>

(***************************************************************************)
(* Each specification below runs one part of the server.  The parts it     *)
(* leaves out are held at these values: no bytes on the wire, no client    *)
(* connected, no child process, no snapshot under way.                     *)
(***************************************************************************)
FrameUnused ==
    /\ stream = <<>> /\ sent = <<>> /\ fed = 0 /\ buffer = <<>> /\ got = <<>>
    /\ last = [entry |-> 0, res |-> "unset", pos |-> 0]
    /\ rpc = "off" /\ partial = FALSE
    /\ rt = [res |-> "unset", pos |-> 0, frame |-> [t |-> "None"]]

KvUnused ==
    /\ dict = <<>> /\ locks = <<>> /\ shard_of = <<>> /\ now = 0
    /\ pc = <<>> /\ cmd = <<>> /\ loc = <<>> /\ replies = <<>> /\ budget = <<>>
    /\ db_mutex = {}

BgUnused ==
    /\ rdb_child_pid = {} /\ aof_child_pid = {} /\ aof_rewrite_scheduled = FALSE
    /\ child = <<>>
    /\ rdb_file = [st |-> "absent"]
    /\ last_save_time = 0

RdbUnused ==
    /\ rdb_src = [st |-> "none"]
    /\ rdb_bytes = <<>>
    /\ rdb_out = [st |-> "none"]
    /\ ID = 1
    /\ dbs = {0}

ConnUnused == index = <<>> /\ recv = <<>> /\ quit_ch = <<>> /\ config = <<>> /\ cfg_guards = {}

(***************************************************************************)
(* Bytes                                                                   *)
(***************************************************************************)
Ch == [cr |-> 13, lf |-> 10, plus |-> 43, minus |-> 45, colon |-> 58,
       dollar |-> 36, star |-> 42, zero |-> 48, nine |-> 57, a |-> 97, e |-> 101]

CRLF == <<Ch.cr, Ch.lf>>

\* The byte at 1-based index i, or -1 past either end.
At(s, i) == IF i >= 1 /\ i <= Len(s) THEN s[i] ELSE -1

RECURSIVE Concat(_)
Concat(ss) == IF ss = <<>> THEN <<>> ELSE Head(ss) \o Concat(Tail(ss))

(***************************************************************************)
(* UTF-8, as std::str::from_utf8 and String::from_utf8_lossy see it.       *)
(***************************************************************************)
IsCont(b) == b >= 128 /\ b <= 191

\* The range the second byte of a 3- or 4-byte sequence must lie in.
SecondOk(b0, b1) ==
    CASE b0 = 224 -> b1 >= 160 /\ b1 <= 191
      [] b0 = 237 -> b1 >= 128 /\ b1 <= 159
      [] b0 = 240 -> b1 >= 144 /\ b1 <= 191
      [] b0 = 244 -> b1 >= 128 /\ b1 <= 143
      [] OTHER    -> IsCont(b1)

\* Width announced by a lead byte; 0 for a byte that cannot start a sequence.
Utf8Width(b0) ==
    IF b0 < 128 THEN 1
    ELSE IF b0 >= 194 /\ b0 <= 223 THEN 2
    ELSE IF b0 >= 224 /\ b0 <= 239 THEN 3
    ELSE IF b0 >= 240 /\ b0 <= 244 THEN 4
    ELSE 0

\* Number of bytes, from s[i] on, that are a prefix of a well-formed sequence.
Utf8Good(s, i) ==
    LET w == Utf8Width(s[i]) IN
    IF w <= 1 THEN w
    ELSE IF ~SecondOk(s[i], At(s, i + 1)) THEN 1
    ELSE IF w = 2 THEN 2
    ELSE IF ~IsCont(At(s, i + 2)) THEN 2
    ELSE IF w = 3 THEN 3
    ELSE IF ~IsCont(At(s, i + 3)) THEN 3
    ELSE 4

RECURSIVE Utf8ValidFrom(_, _)
Utf8ValidFrom(s, i) ==
    IF i > Len(s) THEN TRUE
    ELSE LET w == Utf8Width(s[i]) IN
         w > 0 /\ Utf8Good(s, i) = w /\ Utf8ValidFrom(s, i + w)

Utf8Valid(s) == Utf8ValidFrom(s, 1)

\* U+FFFD REPLACEMENT CHARACTER
Replacement == <<239, 191, 189>>

RECURSIVE LossyFrom(_, _)
LossyFrom(s, i) ==
    IF i > Len(s) THEN <<>>
    ELSE LET w == Utf8Width(s[i])
             g == Utf8Good(s, i)
         IN  IF w > 0 /\ g = w
             THEN SubSeq(s, i, i + w - 1) \o LossyFrom(s, i + w)
             ELSE Replacement \o LossyFrom(s, i + (IF g = 0 THEN 1 ELSE g))

\* String::from_utf8_lossy(b), as bytes
Lossy(s) == LossyFrom(s, 1)

(***************************************************************************)
(* Decimal text of integers: Display for i64 / usize and FromStr.          *)
(* The 64 bits of i64 and u64 are scaled to IntBits bits, so that sums and *)
(* products at the ends of the range can be computed.                      *)
(***************************************************************************)
IntBits == 20

\* 2^IntBits: the number of values of u64.
TwoToBits == 2 ^ IntBits

\* i64::MAX, i64::MIN, u64::MAX
MaxI64 == (TwoToBits \div 2) - 1

MinI64 == 0 - (TwoToBits \div 2)

MaxU64 == TwoToBits - 1

\* The two's complement value of x as i64: wrapping_add, wrapping_neg.
WrapI64(x) == ((x - MinI64) % TwoToBits) + MinI64

\* The value of x as u64: `x as u64` for an i64, wrapping_add, wrapping_mul.
WrapU64(x) == x % TwoToBits

InI64(x) == x >= MinI64 /\ x <= MaxI64

InU64(x) == x >= 0 /\ x <= MaxU64

RECURSIVE FmtNat(_)
FmtNat(n) ==
    IF n < 10 THEN <<Ch.zero + n>>
    ELSE FmtNat(n \div 10) \o <<Ch.zero + (n % 10)>>

FmtInt(n) == IF n < 0 THEN <<Ch.minus>> \o FmtNat(-n) ELSE FmtNat(n)

IsDigit(b) == b >= Ch.zero /\ b <= Ch.nine

AllDigits(s) == \A i \in 1..Len(s) : IsDigit(s[i])

RECURSIVE DigitsVal(_)
DigitsVal(s) ==
    IF s = <<>> THEN 0
    ELSE 10 * DigitsVal(SubSeq(s, 1, Len(s) - 1)) + (s[Len(s)] - Ch.zero)

NotANumber == [n |-> 0, ok |-> FALSE]

\* The digits of from_str: an optional '+', for a signed type an optional
\* '-', then one or more digits.
FromDigits(s, signed) ==
    IF s = <<>> THEN NotANumber
    ELSE IF s[1] \in {Ch.plus, Ch.minus} /\ Len(s) = 1 THEN NotANumber
    ELSE IF s[1] = Ch.plus
         THEN IF AllDigits(Tail(s)) THEN [n |-> DigitsVal(Tail(s)), ok |-> TRUE]
              ELSE NotANumber
    ELSE IF s[1] = Ch.minus /\ signed
         THEN IF AllDigits(Tail(s)) THEN [n |-> 0 - DigitsVal(Tail(s)), ok |-> TRUE]
              ELSE NotANumber
    ELSE IF AllDigits(s) THEN [n |-> DigitsVal(s), ok |-> TRUE]
    ELSE NotANumber

\* T::from_str for T = i64 (signed) and T = usize (not signed): a number
\* that does not fit an i64 is PosOverflow / NegOverflow, an Err.
FromStr(s, signed) ==
    LET v == FromDigits(s, signed)
    IN  IF v.ok /\ signed /\ ~InI64(v.n) THEN NotANumber ELSE v

(***************************************************************************)
(* Frames                                                                  *)
(***************************************************************************)
Simple(b)  == [t |-> "Simple", b |-> b]
Error(b)   == [t |-> "Error", b |-> b]
Integer(n) == [t |-> "Integer", n |-> n]
Bulk(b)    == [t |-> "Bulk", b |-> b]
Null       == [t |-> "Null"]
Array(a)   == [t |-> "Array", a |-> a]
NoFrame    == [t |-> "None"]

\* Display for Frame / Frame::serialize
RECURSIVE Serialize(_)
Serialize(f) ==
    CASE f.t = "Simple"  -> <<Ch.plus>> \o Lossy(f.b) \o CRLF
      [] f.t = "Error"   -> <<Ch.minus>> \o Lossy(f.b) \o CRLF
      [] f.t = "Integer" -> <<Ch.colon>> \o FmtInt(f.n) \o CRLF
      [] f.t = "Bulk"    -> <<Ch.dollar>> \o FmtInt(Len(f.b)) \o CRLF \o Lossy(f.b) \o CRLF
      [] f.t = "Null"    -> <<Ch.dollar>> \o FmtInt(-1) \o CRLF
      [] f.t = "Array"   ->
            <<Ch.star>> \o FmtInt(Len(f.a)) \o CRLF
                \o Concat([i \in 1..Len(f.a) |-> Serialize(f.a[i])])

\* The wire form of a frame as the protocol defines it (what a peer sends):
\* payload bytes are sent as they are.
RECURSIVE Wire(_)
Wire(f) ==
    CASE f.t = "Simple"  -> <<Ch.plus>> \o f.b \o CRLF
      [] f.t = "Error"   -> <<Ch.minus>> \o f.b \o CRLF
      [] f.t = "Integer" -> <<Ch.colon>> \o FmtInt(f.n) \o CRLF
      [] f.t = "Bulk"    -> <<Ch.dollar>> \o FmtInt(Len(f.b)) \o CRLF \o f.b \o CRLF
      [] f.t = "Null"    -> <<Ch.dollar>> \o FmtInt(-1) \o CRLF
      [] f.t = "Array"   ->
            <<Ch.star>> \o FmtInt(Len(f.a)) \o CRLF
                \o Concat([i \in 1..Len(f.a) |-> Wire(f.a[i])])

(***************************************************************************)
(* Frame::parse.  A result is [res, frame, pos]: res is "frame", "none"    *)
(* (Ok(None): incomplete), "err" (Err: protocol error) or "panic"; pos is  *)
(* the cursor position the call leaves.                                    *)
(***************************************************************************)
PR(res, frame, pos) == [res |-> res, pos |-> pos, frame |-> frame]

\* Position (0-based) of the first '\n' at or after begin, or -1.
NewlineAt(buf, begin) ==
    LET idx == {i \in begin..(Len(buf) - 1) : buf[i + 1] = Ch.lf} IN
    IF idx = {} THEN -1 ELSE CHOOSE i \in idx : \A j \in idx : i <= j

\* Frame::next_line
NextLine(buf, begin) ==
    LET i == NewlineAt(buf, begin) IN
    IF i < 0 THEN [res |-> "none", pos |-> begin, line |-> <<>>]
    ELSE IF i > 0 /\ buf[i] = Ch.cr
         THEN IF i - 1 < begin
              THEN [res |-> "panic", pos |-> i + 1, line |-> <<>>]
              ELSE [res |-> "line", pos |-> i + 1, line |-> SubSeq(buf, begin + 1, i - 1)]
         ELSE [res |-> "line", pos |-> i + 1, line |-> SubSeq(buf, begin + 1, i)]

\* Frame::parse_into::<T> over Frame::next_utf8_str
ParseInto(buf, begin, signed) ==
    LET nl == NextLine(buf, begin) IN
    IF nl.res # "line" THEN [res |-> nl.res, pos |-> nl.pos, n |-> 0]
    ELSE IF ~Utf8Valid(nl.line) THEN [res |-> "err", pos |-> nl.pos, n |-> 0]
    ELSE LET v == FromStr(nl.line, signed) IN
         IF v.ok THEN [res |-> "ok", pos |-> nl.pos, n |-> v.n]
         ELSE [res |-> "err", pos |-> nl.pos, n |-> 0]

\* "data not enough, rollback": cur.set_position(checkpoint)
RollbackSkipped(checkpoint, cur) == cur

Rollback(checkpoint, cur) == checkpoint

\* The bulk branch's test that the payload and its "\r\n" have arrived.
BulkArrivedNoCrlf(remaining, len) == remaining >= len

BulkArrived(remaining, len) == remaining >= len + 2

\* The one element of a singleton set. Binding a result through a singleton,
\* { e(r) : r \in {call} }, evaluates the call once, however often e uses r.
The(S) == CHOOSE x \in S : TRUE

RECURSIVE Parse(_, _), ParseElems(_, _, _, _)

\* b'+' and b'-': a line; mk is Simple or Error
ParseLine(nl, isError) ==
    IF nl.res = "line"
    THEN PR("frame", IF isError THEN Error(nl.line) ELSE Simple(nl.line), nl.pos)
    ELSE IF nl.res = "none" THEN PR("short", NoFrame, nl.pos)
    ELSE PR(nl.res, NoFrame, nl.pos)

\* b':' given the header h that parse_into returned
ParseInteger(h) ==
    IF h.res = "ok" THEN PR("frame", Integer(h.n), h.pos)
    ELSE IF h.res = "none" THEN PR("short", NoFrame, h.pos)
    ELSE PR(h.res, NoFrame, h.pos)

\* b'$' given the header h that parse_into::<i64> returned
ParseBulk(buf, h) ==
    IF h.res = "ok"
    THEN IF h.n = -1 THEN PR("frame", Null, h.pos)
         ELSE IF BulkArrived(Len(buf) - h.pos, h.n)
         THEN IF h.n < 0 \/ h.n + 2 > Len(buf) - h.pos
              THEN PR("panic", NoFrame, h.pos)   \* chunk()[..len as usize], advance
              ELSE PR("frame", Bulk(SubSeq(buf, h.pos + 1, h.pos + h.n)),
                      h.pos + h.n + 2)
         ELSE PR("short", NoFrame, h.pos)
    ELSE IF h.res = "none" THEN PR("short", NoFrame, h.pos)
    ELSE PR(h.res, NoFrame, h.pos)

\* b'*' given the header h that parse_into::<usize> returned
ParseArray(buf, h) ==
    IF h.res = "ok"
    THEN The({ IF el.res = "ok" THEN PR("frame", Array(el.a), el.pos)
               ELSE PR(el.res, NoFrame, el.pos)
               : el \in {ParseElems(buf, h.pos, h.n, <<>>)} })
    ELSE IF h.res = "none" THEN PR("short", NoFrame, h.pos)
    ELSE PR(h.res, NoFrame, h.pos)

\* The match on the leading byte; res "short" stands for falling out of the
\* match ("data not enough").
ParseMatch(buf, checkpoint) ==
    LET byte == buf[checkpoint + 1]
        p1   == checkpoint + 1
    IN
    CASE byte = Ch.plus   -> The({ ParseLine(nl, FALSE) : nl \in {NextLine(buf, p1)} })
      [] byte = Ch.minus  -> The({ ParseLine(nl, TRUE) : nl \in {NextLine(buf, p1)} })
      [] byte = Ch.colon  -> The({ ParseInteger(h) : h \in {ParseInto(buf, p1, TRUE)} })
      [] byte = Ch.dollar -> The({ ParseBulk(buf, h) : h \in {ParseInto(buf, p1, TRUE)} })
      [] byte = Ch.star   -> The({ ParseArray(buf, h) : h \in {ParseInto(buf, p1, FALSE)} })
      [] OTHER            -> PR("err", NoFrame, p1)

\* The element loop of the array branch: `?` leaves on an error, an
\* incomplete element breaks out of the loop.
ParseElems(buf, pos, len, acc) ==
    IF Len(acc) = len THEN [res |-> "ok", pos |-> pos, a |-> acc]
    ELSE The({ IF r.res = "frame"
               THEN ParseElems(buf, r.pos, len, Append(acc, r.frame))
               ELSE IF r.res = "none" THEN [res |-> "short", pos |-> r.pos, a |-> acc]
               ELSE [res |-> r.res, pos |-> r.pos, a |-> acc]
               : r \in {Parse(buf, pos)} })

Parse(buf, pos) ==
    IF pos >= Len(buf) THEN PR("none", NoFrame, pos)       \* !cur.has_remaining()
    ELSE The({ IF r.res = "short" THEN PR("none", NoFrame, Rollback(pos, r.pos)) ELSE r
               : r \in {ParseMatch(buf, pos)} })

\* Parsing a whole byte string at once: the frames parse returns from
\* position pos on, until it returns no frame.
RECURSIVE ParseAll(_, _)
ParseAll(buf, pos) ==
    The({ IF r.res = "frame" THEN <<r.frame>> \o ParseAll(buf, r.pos) ELSE <<>>
          : r \in {Parse(buf, pos)} })

(***************************************************************************)
(* The frames and byte streams the codec is exercised on.                  *)
(***************************************************************************)
MaxArrayLen == 2

LeafFrames ==
    { Simple(<<>>), Simple(<<Ch.a>>), Error(<<Ch.e>>),
      Integer(0), Integer(-1), Integer(12),
      Bulk(<<>>), Bulk(<<Ch.a>>), Bulk(CRLF), Bulk(<<255>>), Bulk(<<195, 169>>),
      Null }

ElemFrames == { Integer(1), Bulk(<<Ch.a>>), Null }

SeqsUpTo(S, lo, hi) == UNION { [1..n -> S] : n \in lo..hi }

FlatArrays == { Array(a) : a \in SeqsUpTo(ElemFrames, 0, MaxArrayLen) }

InnerArrays == { Array(<<>>), Array(<<Bulk(<<Ch.a>>)>>), Array(<<Integer(1), Null>>) }

NestedArrays ==
    { Array(a) : a \in { b \in SeqsUpTo(ElemFrames \cup InnerArrays, 1, MaxArrayLen) :
                         \E i \in 1..Len(b) : b[i] \in InnerArrays } }

FrameSet == LeafFrames \cup FlatArrays \cup NestedArrays

FollowFrames == { Integer(12), Bulk(<<Ch.a>>), Array(<<Null>>) }

\* One frame, or one frame followed by a second.
SentSet == { <<f>> : f \in FrameSet } \cup { <<f, g>> : f \in FrameSet, g \in FollowFrames }

\* Byte streams no encoder produces: "$-2", ":a", "!", "+a\n", "*-1", "$\xFF", "+a\r".
Malformed ==
    { <<Ch.dollar, Ch.minus, 50, Ch.cr, Ch.lf>>, <<Ch.colon, Ch.a, Ch.cr, Ch.lf>>,
      <<33>>, <<Ch.plus, Ch.a, Ch.lf>>, <<Ch.star, Ch.minus, 49, Ch.cr, Ch.lf>>,
      <<Ch.dollar, 255, Ch.cr, Ch.lf>>, <<Ch.plus, Ch.a, Ch.cr>> }

WireOf(fs) == Concat([i \in 1..Len(fs) |-> Wire(fs[i])])

(***************************************************************************)
(* The read side of a connection: Connection::read_frame keeps a growable  *)
(* buffer, tries Frame::parse on it, consumes a complete frame, and reads  *)
(* more bytes from the socket when the frame is incomplete.                *)
(***************************************************************************)
Unset == [res |-> "unset", pos |-> 0, frame |-> NoFrame]

InitFrame ==
    /\ \/ \E fs \in SentSet : sent = fs /\ stream = WireOf(fs)
       \/ \E m \in Malformed : sent = <<>> /\ stream = m
    /\ fed = 0
    /\ buffer = <<>>
    /\ got = <<>>
    /\ last = [entry |-> 0, res |-> "unset", pos |-> 0]
    /\ rpc = "parse"
    /\ partial = FALSE
    /\ rt = Unset
    /\ KvUnused /\ BgUnused /\ RdbUnused /\ ConnUnused

\* One attempt of Frame::parse on a cursor at the start of the buffer.
TryParse ==
    /\ rpc = "parse"
    /\ \E r \in {Parse(buffer, 0)} :
       /\ last' = [entry |-> 0, res |-> r.res, pos |-> r.pos]
       /\ IF r.res = "frame" /\ r.pos <= Len(buffer)
          THEN /\ got' = Append(got, r.frame)
               /\ buffer' = SubSeq(buffer, r.pos + 1, Len(buffer))
               /\ rpc' = "parse"
               /\ partial' = partial
          ELSE IF r.res = "none"
          THEN /\ rpc' = "read"
               /\ partial' = (partial \/ buffer # <<>>)
               /\ UNCHANGED <<got, buffer>>
          ELSE /\ rpc' = "failed"
               /\ UNCHANGED <<got, buffer, partial>>
    /\ UNCHANGED <<stream, sent, fed, rt>>
    /\ UNCHANGED <<kvVars, bgVars, rdbVars, connVars>>

\* The socket delivers the next n bytes of the stream.
SockRead(n) ==
    /\ rpc = "read"
    /\ fed + n <= Len(stream)
    /\ buffer' = buffer \o SubSeq(stream, fed + 1, fed + n)
    /\ fed' = fed + n
    /\ rpc' = "parse"
    /\ UNCHANGED <<stream, sent, got, last, partial, rt>>
    /\ UNCHANGED <<kvVars, bgVars, rdbVars, connVars>>

\* The peer has sent everything and closes: read returns 0.
SockEof ==
    /\ rpc = "read"
    /\ fed = Len(stream)
    /\ rpc' = "closed"
    /\ UNCHANGED <<stream, sent, fed, buffer, got, last, partial, rt>>
    /\ UNCHANGED <<kvVars, bgVars, rdbVars, connVars>>

\* parse(serialize(f)) for the first frame of the stream.
RoundTrip ==
    /\ sent # <<>>
    /\ rt.res = "unset"
    /\ rt' = Parse(Serialize(sent[1]), 0)
    /\ UNCHANGED <<stream, sent, fed, buffer, got, last, rpc, partial>>
    /\ UNCHANGED <<kvVars, bgVars, rdbVars, connVars>>

NextFrame ==
    \/ TryParse
    \/ \E n \in 1..Len(stream) : SockRead(n)
    \/ SockEof
    \/ RoundTrip

SpecFrame == InitFrame /\ [][NextFrame]_vars

IsPrefix(s, t) == Len(s) <= Len(t) /\ s = SubSeq(t, 1, Len(s))

\* C3: a parse that returns "incomplete" leaves the cursor where it was on
\* entry, whatever kind of frame was cut short.
C3_IncompleteRewinds == last.res = "none" => last.pos = last.entry

\* C3 witness: a nested array cut short inside its inner array was found
\* incomplete ("*n\r\n*..." is buffered and parse returned None).
C3_Witness ==
    /\ last.res = "none"
    /\ rpc = "read"
    /\ Len(buffer) >= 6
    /\ buffer[1] = Ch.star
    /\ buffer[5] = Ch.star

\* C4: fed chunk by chunk, a well-formed stream yields no error, at every
\* moment a prefix of the frames that parsing the whole stream at once
\* yields, and all of them once every chunk is in.
C4_ChunkingIndependent ==
    sent # <<>> =>
        /\ rpc # "failed"
        /\ IsPrefix(got, ParseAll(stream, 0))
        /\ (rpc = "closed" => got = ParseAll(stream, 0) /\ buffer = <<>>)

\* C4 witness: a two-frame stream, cut inside a frame by a chunk boundary,
\* has been read to its end.
C4_Witness == rpc = "closed" /\ partial /\ Len(got) = 2 /\ got[1].t = "Array"

\* C5: parse(serialize(f)) returns f and consumes exactly serialize(f).
C5_RoundTrip ==
    rt.res # "unset" =>
        /\ rt.res = "frame"
        /\ rt.frame = sent[1]
        /\ rt.pos = Len(Serialize(sent[1]))

(***************************************************************************)
(* The keyspace: Dict wraps a DashMap from key to DictValue.  A DashMap is *)
(* split into shards, each behind a read-write lock; get holds the shard's *)
(* lock shared for as long as the returned Ref lives, entry / get_mut /    *)
(* remove / insert take it exclusive.                                      *)
(***************************************************************************)
None == {}

Some(x) == {x}

Keys == { <<Ch.a>>, <<Ch.e>> }

Shards == {0, 1}

NoEntry == [kind |-> "vacant"]

String(s) == [s |-> s, kind |-> "string"]

Hash(h) == [h |-> h, kind |-> "hash"]

List(l) == [kind |-> "list", l |-> l]

DictValue(value, expire_at) == [value |-> value, expire_at |-> expire_at]

\* DictValue::is_expired, with t the reading of shared::now_ms().
is_expired(e, t) == \E expire \in e.expire_at : t > expire

Unlocked == [w |-> {}, r |-> {}]

\* An exclusive mode that waits for nobody.
CanExcludeUnguarded(l) == TRUE

\* What each mode of the shard lock waits for.
CanShare(l) == l.w = {}

CanExclude(l) == l.w = {} /\ l.r = {}

\* Dropping every guard the task c holds.
ReleaseAll(c) == [s \in DOMAIN locks |-> [w |-> locks[s].w \ {c}, r |-> locks[s].r \ {c}]]

ReleaseShared(c, s) == [locks EXCEPT ![s].r = @ \ {c}]

(***************************************************************************)
(* Commands, as Command::from hands them to handle_command.                *)
(***************************************************************************)
Cmd(op, key) ==
    [index |-> 0, expire |-> None, op |-> op, key |-> key, val |-> <<>>,
     field |-> <<>>, incr |-> 0, nx |-> FALSE,
     xx |-> FALSE, values |-> <<>>, left |-> FALSE]

Get(key) == Cmd("get", key)

Set(key, val, nx, xx, expire) ==
    [Cmd("set", key) EXCEPT !.val = val, !.nx = nx, !.xx = xx, !.expire = expire]

\* SetNx::apply calls generic_set with REDIS_SET_NX and no expire.
SetNx(key, val) == [Cmd("setnx", key) EXCEPT !.val = val, !.nx = TRUE]

Incr(key) == [Cmd("incr", key) EXCEPT !.incr = 1]

IncrBy(key, increment) == [Cmd("incrby", key) EXCEPT !.incr = increment]

Decr(key) == [Cmd("decr", key) EXCEPT !.incr = -1]

\* A DECRBY whose decrement is added.
DecrByUnnegated(key, decrement) == [Cmd("decrby", key) EXCEPT !.incr = decrement]

DecrBy(key, decrement) == [Cmd("decrby", key) EXCEPT !.incr = WrapI64(-decrement)]

AppendCmd(key, value) == [Cmd("append", key) EXCEPT !.val = value]

Strlen(key) == Cmd("strlen", key)

HSet(key, field, value) == [Cmd("hset", key) EXCEPT !.field = field, !.val = value]

HGet(key, field) == [Cmd("hget", key) EXCEPT !.field = field]

\* ListPush and ListPop carry the end of the list they work on: the flag
\* Command::from hands to their from().
ListPush(op, key, values, left) == [Cmd(op, key) EXCEPT !.values = values, !.left = left]

ListPop(op, key, left) == [Cmd(op, key) EXCEPT !.left = left]

Select(i) == [Cmd("select", <<>>) EXCEPT !.index = i]

DbSize == Cmd("dbsize", <<>>)

\* Unknown::new(cmd): the name as it was sent.
Unknown(name) == [Cmd("unknown", <<>>) EXCEPT !.val = name]

Save == Cmd("save", <<>>)

Quit == Cmd("quit", <<>>)

BgSave == Cmd("bgsave", <<>>)

BgRewriteAof == Cmd("bgrewriteaof", <<>>)

ReadOps == {"get", "strlen"}

IncDecOps == {"incr", "incrby", "decr", "decrby"}

HashOps == {"hset", "hget"}

BgOps == {"save", "bgsave", "bgrewriteaof"}

PushOps == {"lpush", "rpush"}

PopOps == {"lpop", "rpop"}

\* The arms that reply without touching the keyspace.
ArmOps == {"select", "dbsize", "unknown"}

\* Where handle_command's arm for the command starts.
Dispatch(m) ==
    IF m.op \in HashOps THEN "db_lock"
    ELSE IF m.op \in BgOps THEN "bg_check"
    ELSE IF m.op \in ArmOps THEN "arm"
    ELSE IF m.op = "rename" THEN "rn_remove"
    ELSE IF m.op = "pexpireat" THEN "expire_at"
    ELSE IF m.op = "quit" THEN "quit"
    ELSE IF m.op = "config_get" THEN "cfg_get"
    ELSE IF m.op = "config_set" THEN "cfg_set"
    ELSE "ce_get"

\* Where Dict::get / Dict::entry goes on after check_expired.
AfterCheck(m) == IF m.op \in ReadOps THEN "get" ELSE "entry"

(***************************************************************************)
(* Replies.  The text of an error reply is kept as a string.               *)
(***************************************************************************)
ErrMsg(msg) == [t |-> "Error", msg |-> msg]

Ok == Simple(<<79, 75>>)

WrongKindText == "Operation against a key holding the wrong kind of value"

WrongTypeText == "WRONGTYPE Operation against a key holding the wrong kind of value"

NotIntText == "ERR value is not an integer or out of range"

BgSaveRunningText == "ERR background save is running"

BgRewriteRunningText == "ERR background rewrite is running"

\* RudisObject::serialize: a string goes out as a Bulk.
SerializeObject(o) == IF o.kind = "string" THEN Bulk(o.s) ELSE ErrMsg(WrongTypeText)

\* RudisString::parse_int.
parse_int(s) == FromStr(s, TRUE)

Loc0 ==
    [n |-> 0, v |-> NoEntry, resp |-> NoFrame, err |-> FALSE,
     keep |-> FALSE, mismatch |-> FALSE, expired |-> FALSE, changed |-> FALSE,
     req |-> NoFrame, todo |-> {}]

\* What a command's critical section leaves behind: the entry, the reply,
\* whether the guard outlives the reply's write, whether the entry was of
\* another kind, and where the task goes next.
Out(e, resp, keep, mismatch, next) ==
    [e |-> e, n |-> 0, resp |-> resp, err |-> FALSE, keep |-> keep,
     mismatch |-> mismatch, next |-> next]

\* An expiry that adds nothing to the clock's reading.
ExpireFromZero(expire, t) == expire

\* expire.map(|ms| shared::now_ms() + ms), on u64.
ExpireFrom(expire, t) == { WrapU64(t + ms) : ms \in expire }

\* `now_ms() + ms` leaves the range of u64.
ExpireOverflows(expire, t) == \E ms \in expire : ~InU64(t + ms)

\* Get::apply, given the Ref that Dict::get returned (held) or None.
GetBody(e, held) ==
    IF held THEN Out(e, SerializeObject(e.value), FALSE, e.value.kind # "string", "write")
    ELSE Out(e, Null, FALSE, FALSE, "write")

\* Strlen::apply.
StrlenBody(e, held) ==
    IF ~held THEN Out(e, Integer(0), FALSE, FALSE, "write")
    ELSE IF e.value.kind = "string" THEN Out(e, Integer(Len(e.value.s)), FALSE, FALSE, "write")
    ELSE Out(e, ErrMsg(WrongKindText), FALSE, TRUE, "write")

\* generic_set, given the Entry (Occupied or Vacant) that Dict::entry returned.
SetBody(e, m, t) ==
    IF e # NoEntry
    THEN IF m.nx THEN Out(e, Null, TRUE, FALSE, "write")
         ELSE Out(DictValue(String(m.val), ExpireFrom(m.expire, t)), Ok, FALSE, FALSE, "write")
    ELSE IF m.xx THEN Out(e, Null, TRUE, FALSE, "write")
         ELSE Out(DictValue(String(m.val), ExpireFrom(m.expire, t)), Ok, FALSE, FALSE, "write")

\* generic_set where the build checks overflow and now_ms() + ms leaves the
\* range: the Occupied arm has assigned entry.value when the addition
\* panics, the Vacant arm has not yet inserted.
SetBodyChecked(e, m, t) ==
    IF e # NoEntry
    THEN IF m.nx THEN SetBody(e, m, t)
         ELSE Out([e EXCEPT !.value = String(m.val)], NoFrame, FALSE, FALSE, "panicked")
    ELSE IF m.xx THEN SetBody(e, m, t)
         ELSE Out(e, NoFrame, FALSE, FALSE, "panicked")

\* Append::apply.
AppendBody(e, m) ==
    IF e = NoEntry
    THEN Out(DictValue(String(m.val), None), Integer(Len(m.val)), FALSE, FALSE, "write")
    ELSE IF e.value.kind = "string"
    THEN Out([e EXCEPT !.value.s = @ \o m.val], Integer(Len(e.value.s) + Len(m.val)),
             FALSE, FALSE, "write")
    ELSE Out(e, ErrMsg(WrongKindText), FALSE, TRUE, "write")

\* generic_incdec up to the point where n is known: or_insert_with, the
\* kind test and parse_int.  The store of n + incr is IncDecStore.
IncDecBody(e) ==
    LET value == IF e = NoEntry THEN DictValue(String(<<Ch.zero>>), None) ELSE e
    IN  IF value.value.kind # "string" THEN Out(value, ErrMsg(WrongKindText), FALSE, TRUE, "write")
        ELSE IF ~parse_int(value.value.s).ok THEN Out(value, ErrMsg(NotIntText), FALSE, FALSE, "write")
        ELSE [Out(value, NoFrame, TRUE, FALSE, "store") EXCEPT !.n = parse_int(value.value.s).n]

Reverse(s) == [i \in 1..Len(s) |-> s[Len(s) + 1 - i]]

\* ListPush::apply: the values go in one by one, each at the head when the
\* command carries left, each at the tail when it does not.
ListPushBody(e, m) ==
    LET pushed(l) == IF m.left THEN Reverse(m.values) \o l ELSE l \o m.values
    IN  IF e = NoEntry
        THEN Out(DictValue(List(pushed(<<>>)), None), Integer(Len(m.values)),
                 FALSE, FALSE, "write")
        ELSE IF e.value.kind = "list"
        THEN Out([e EXCEPT !.value.l = pushed(@)], Integer(Len(e.value.l) + Len(m.values)),
                 FALSE, FALSE, "write")
        ELSE Out(e, ErrMsg(WrongTypeText), FALSE, TRUE, "write")

\* ListPop::apply: the head when the command carries left, the tail when it
\* does not; a list left empty is removed.
ListPopBody(e, m) ==
    IF e = NoEntry THEN Out(e, Null, FALSE, FALSE, "write")
    ELSE IF e.value.kind = "list"
    THEN LET l == e.value.l
             popped == IF m.left THEN l[1] ELSE l[Len(l)]
             rest == IF m.left THEN Tail(l) ELSE SubSeq(l, 1, Len(l) - 1)
         IN  Out(IF rest = <<>> THEN NoEntry ELSE [e EXCEPT !.value.l = rest],
                 Bulk(popped), FALSE, FALSE, "write")
    ELSE Out(e, ErrMsg(WrongTypeText), FALSE, TRUE, "write")

CommandBody(e, held, m, t) ==
    CASE m.op = "get" -> GetBody(e, held)
      [] m.op = "strlen" -> StrlenBody(e, held)
      [] m.op \in {"set", "setnx"} -> SetBody(e, m, t)
      [] m.op = "append" -> AppendBody(e, m)
      [] m.op \in PushOps -> ListPushBody(e, m)
      [] m.op \in PopOps -> ListPopBody(e, m)
      [] OTHER -> IncDecBody(e)

\* HSet::apply, given what lookup_write found; the wrong-kind arm returns Err.
HSetBody(e, m, t) ==
    IF e = NoEntry \/ is_expired(e, t)
    THEN Out(DictValue(Hash(m.field :> m.val), None), Integer(1), TRUE, FALSE, "write")
    ELSE IF e.value.kind = "hash"
    THEN Out([e EXCEPT !.value.h = (m.field :> m.val) @@ @], Integer(1), TRUE, FALSE, "write")
    ELSE [Out(e, ErrMsg(WrongTypeText), TRUE, TRUE, "write") EXCEPT !.err = TRUE]

\* HGet::apply, given what lookup_read found.
HGetBody(e, m, t) ==
    IF e = NoEntry THEN Out(e, Null, TRUE, FALSE, "write")
    ELSE IF is_expired(e, t) THEN Out(NoEntry, Null, TRUE, FALSE, "write")
    ELSE IF e.value.kind = "hash"
    THEN IF m.field \in DOMAIN e.value.h
         THEN Out(e, Bulk(e.value.h[m.field]), TRUE, FALSE, "write")
         ELSE Out(e, Null, TRUE, FALSE, "write")
    ELSE [Out(e, ErrMsg(WrongTypeText), TRUE, TRUE, "write") EXCEPT !.err = TRUE]

(***************************************************************************)
(* A client's handler task, step by step.  pc[c] is where the task of      *)
(* client c stands:                                                        *)
(*   idle       in read_frame, waiting for the next command                *)
(*   ce_get     in check_expired, about to call dict.get                   *)
(*   ce_check   in check_expired, holding the Ref, about to test it        *)
(*   ce_remove  in check_expired, holding the Ref, calling dict.remove     *)
(*   get/entry  about to call dict.get / dict.entry                        *)
(*   body       inside the command's critical section                      *)
(*   store      generic_incdec has n, about to store n + incr              *)
(*   db_lock    a hash command waiting in db.lock()                        *)
(*   hbody      a hash command holding the db guard                        *)
(*   write      about to write the reply and return                        *)
(*   closed     handle_client has returned                                 *)
(***************************************************************************)
Clients == DOMAIN pc

\* handle_client: read_frame returns a frame and Command::from a command.
ReadFrame(c, menu) ==
    /\ pc[c] = "idle"
    /\ budget[c] > 0
    /\ \E m \in menu :
        /\ cmd' = [cmd EXCEPT ![c] = m]
        /\ pc' = [pc EXCEPT ![c] = Dispatch(m)]
    /\ budget' = [budget EXCEPT ![c] = @ - 1]
    /\ loc' = [loc EXCEPT ![c] = Loc0]
    /\ UNCHANGED <<dict, locks, shard_of, now, replies, db_mutex>>
    /\ UNCHANGED <<frameVars, bgVars, rdbVars, connVars>>

\* self.dict.get(key), in check_expired and in Dict::get: waits for the
\* shard's lock in shared mode; the Ref of a key that is present keeps it.
AcquireShared(c) ==
    /\ pc[c] \in {"ce_get", "get"}
    /\ LET key == cmd[c].key
           s == shard_of[key]
           found == dict[key] # NoEntry
       IN /\ CanShare(locks[s])
          /\ locks' = IF found THEN [locks EXCEPT ![s].r = @ \cup {c}] ELSE locks
          /\ pc' = [pc EXCEPT ![c] = IF pc[c] = "get" THEN "body"
                                     ELSE IF found THEN "ce_check"
                                     ELSE AfterCheck(cmd[c])]
    /\ UNCHANGED <<dict, shard_of, now, cmd, loc, replies, budget, db_mutex>>
    /\ UNCHANGED <<frameVars, bgVars, rdbVars, connVars>>

\* check_expired: entry.is_expired(), with the Ref still alive.
CheckExpired(c) ==
    /\ pc[c] = "ce_check"
    /\ LET key == cmd[c].key
       IN IF is_expired(dict[key], now)
          THEN /\ pc' = [pc EXCEPT ![c] = "ce_remove"]
               /\ loc' = [loc EXCEPT ![c].expired = TRUE]
               /\ UNCHANGED locks
          ELSE /\ pc' = [pc EXCEPT ![c] = AfterCheck(cmd[c])]
               /\ locks' = ReleaseShared(c, shard_of[key])
               /\ UNCHANGED loc
    /\ UNCHANGED <<dict, shard_of, now, cmd, replies, budget, db_mutex>>
    /\ UNCHANGED <<frameVars, bgVars, rdbVars, connVars>>

\* self.dict.remove(key) in check_expired, and self.dict.entry(key) in
\* Dict::entry: both wait for the shard's lock in exclusive mode.  remove
\* gives it back at once, and check_expired then drops its Ref; the Entry
\* keeps it.
AcquireExclusive(c) ==
    /\ pc[c] \in {"ce_remove", "entry"}
    /\ LET key == cmd[c].key
           s == shard_of[key]
       IN /\ CanExclude(locks[s])
          /\ IF pc[c] = "ce_remove"
             THEN /\ dict' = [dict EXCEPT ![key] = NoEntry]
                  /\ locks' = ReleaseShared(c, s)
                  /\ pc' = [pc EXCEPT ![c] = AfterCheck(cmd[c])]
             ELSE /\ locks' = [locks EXCEPT ![s].w = @ \cup {c}]
                  /\ pc' = [pc EXCEPT ![c] = "body"]
                  /\ UNCHANGED dict
    /\ UNCHANGED <<shard_of, now, cmd, loc, replies, budget, db_mutex>>
    /\ UNCHANGED <<frameVars, bgVars, rdbVars, connVars>>

\* What the critical section can come to: the result of the command's body
\* and, for a SET whose expiry leaves the range, that of the checked build.
BodyOutcomes(e, held, m, t) ==
    {CommandBody(e, held, m, t)}
        \cup (IF m.op = "set" /\ ExpireOverflows(m.expire, t)
              THEN {SetBodyChecked(e, m, t)} ELSE {})

\* The critical section of a string command.  A guard that does not outlive
\* the block is dropped here; generic_set's refusals (NX on a present key,
\* XX on an absent one) return with the Entry alive, after the write.
Body(c) ==
    /\ pc[c] = "body"
    /\ LET key == cmd[c].key
           s == shard_of[key]
       IN \E o \in BodyOutcomes(dict[key], c \in locks[s].r, cmd[c], now) :
          /\ dict' = [dict EXCEPT ![key] = o.e]
          /\ locks' = IF o.keep THEN locks ELSE ReleaseAll(c)
          /\ loc' = [loc EXCEPT ![c] = [@ EXCEPT !.n = o.n, !.resp = o.resp, !.keep = o.keep,
                                                 !.mismatch = o.mismatch,
                                                 !.changed = (o.e # dict[key])]]
          /\ pc' = [pc EXCEPT ![c] = o.next]
    /\ UNCHANGED <<shard_of, now, cmd, replies, budget, db_mutex>>
    /\ UNCHANGED <<frameVars, bgVars, rdbVars, connVars>>

\* An increment that replies n + incr and stores nothing.
IncDecReplyOnly(c) ==
    /\ pc[c] = "store"
    /\ loc' = [loc EXCEPT ![c] = [@ EXCEPT !.resp = Integer(loc[c].n + cmd[c].incr),
                                           !.keep = FALSE]]
    /\ locks' = ReleaseAll(c)
    /\ pc' = [pc EXCEPT ![c] = "write"]
    /\ UNCHANGED <<dict, shard_of, now, cmd, replies, budget, db_mutex>>
    /\ UNCHANGED <<frameVars, bgVars, rdbVars, connVars>>

\* `n + incr` on i64 leaves the range.
Overflows(n, incr) == ~InI64(n + incr)

\* generic_incdec: s.value = (n + incr).to_string(), the reply, and the end
\* of the block that owns the RefMut.  An n + incr that leaves the range
\* panics where the build checks overflow and wraps where it does not.
IncDecStore(c) ==
    /\ pc[c] = "store"
    /\ LET key == cmd[c].key
           sum == WrapI64(loc[c].n + cmd[c].incr)
       IN \E checked \in IF Overflows(loc[c].n, cmd[c].incr) THEN BOOLEAN ELSE {FALSE} :
          IF checked
          THEN /\ pc' = [pc EXCEPT ![c] = "panicked"]
               /\ UNCHANGED <<dict, loc>>
          ELSE /\ dict' = [dict EXCEPT ![key].value.s = FmtInt(sum)]
               /\ loc' = [loc EXCEPT ![c] = [@ EXCEPT !.resp = Integer(sum), !.keep = FALSE,
                                                      !.changed = TRUE]]
               /\ pc' = [pc EXCEPT ![c] = "write"]
    /\ locks' = ReleaseAll(c)
    /\ UNCHANGED <<shard_of, now, cmd, replies, budget, db_mutex>>
    /\ UNCHANGED <<frameVars, bgVars, rdbVars, connVars>>

\* db.lock().await of the hash commands.
AcquireDb(c) ==
    /\ pc[c] = "db_lock"
    /\ db_mutex = {}
    /\ db_mutex' = {c}
    /\ pc' = [pc EXCEPT ![c] = "hbody"]
    /\ UNCHANGED <<dict, locks, shard_of, now, cmd, loc, replies, budget>>
    /\ UNCHANGED <<frameVars, bgVars, rdbVars, connVars>>

\* HSet::apply / HGet::apply under the db guard: the lookup and the arm it
\* selects.  The lookup reaches the entry through its shard.
HashBody(c) ==
    /\ pc[c] = "hbody"
    /\ LET key == cmd[c].key
       IN /\ CanExclude(locks[shard_of[key]])
          /\ \E o \in {IF cmd[c].op = "hset" THEN HSetBody(dict[key], cmd[c], now)
                       ELSE HGetBody(dict[key], cmd[c], now)} :
             /\ dict' = [dict EXCEPT ![key] = o.e]
             /\ loc' = [loc EXCEPT ![c] = [@ EXCEPT !.resp = o.resp, !.keep = o.keep,
                                                    !.mismatch = o.mismatch, !.err = o.err,
                                                    !.changed = (o.e # dict[key])]]
    /\ pc' = [pc EXCEPT ![c] = "write"]
    /\ UNCHANGED <<locks, shard_of, now, cmd, replies, budget, db_mutex>>
    /\ UNCHANGED <<frameVars, bgVars, rdbVars, connVars>>

\* write_frame(&response), then the handler returns: guards still alive are
\* dropped, and an Err goes up through handle_command and execute_cmd to
\* handle_client, which returns it: the connection is closed.
WriteFrame(c) ==
    /\ pc[c] = "write"
    /\ replies' = [replies EXCEPT ![c] =
                     @ \o <<[cmd |-> cmd[c], frame |-> loc[c].resp, mismatch |-> loc[c].mismatch,
                             expired |-> loc[c].expired, changed |-> loc[c].changed,
                             req |-> loc[c].req]>>]
    /\ locks' = ReleaseAll(c)
    /\ db_mutex' = db_mutex \ {c}
    /\ cfg_guards' = cfg_guards \ {c}
    /\ pc' = [pc EXCEPT ![c] = IF loc[c].err THEN "closed" ELSE "idle"]
    /\ UNCHANGED <<dict, shard_of, now, cmd, loc, budget>>
    /\ UNCHANGED <<frameVars, bgVars, rdbVars, index, recv, quit_ch, config>>

\* The clock moves on.
MaxClock == 2

Tick ==
    /\ now < MaxClock
    /\ now' = now + 1
    /\ UNCHANGED <<dict, locks, shard_of, pc, cmd, loc, replies, budget, db_mutex>>
    /\ UNCHANGED <<frameVars, bgVars, rdbVars, connVars>>

(***************************************************************************)
(* Counters: connections that all send INCR for one key holding "0".       *)
(***************************************************************************)
IncrClients == 2

IncrEach == 2

IncrKey == <<Ch.a>>

\* One connection per element of b, whose peer will send b[c] commands.
InitClients(b) ==
    /\ pc = [c \in DOMAIN b |-> "idle"]
    /\ cmd = [c \in DOMAIN b |-> Cmd("none", <<>>)]
    /\ loc = [c \in DOMAIN b |-> Loc0]
    /\ replies = [c \in DOMAIN b |-> <<>>]
    /\ budget = b
    /\ db_mutex = {}

\* The ways the keys can fall into the shards, and the one way that matters
\* when a single key is in use.
ShardMaps == [Keys -> Shards]

OneShard == { [k \in Keys |-> 0] }

InitLocks(maps) ==
    /\ locks = [s \in Shards |-> Unlocked]
    /\ shard_of \in maps

InitIncr ==
    /\ dict = [k \in Keys |-> IF k = IncrKey THEN DictValue(String(<<Ch.zero>>), None) ELSE NoEntry]
    /\ now = 0
    /\ InitLocks(ShardMaps)
    /\ InitClients([c \in 1..IncrClients |-> IncrEach])
    /\ FrameUnused /\ BgUnused /\ RdbUnused /\ ConnUnused

NextIncr ==
    \/ \E c \in Clients : ReadFrame(c, {Incr(IncrKey)})
    \/ \E c \in Clients : AcquireShared(c)
    \/ \E c \in Clients : CheckExpired(c)
    \/ \E c \in Clients : AcquireExclusive(c)
    \/ \E c \in Clients : Body(c)
    \/ \E c \in Clients : IncDecStore(c)
    \/ \E c \in Clients : WriteFrame(c)

SpecIncr == InitIncr /\ [][NextIncr]_vars

AllReplies == UNION { { <<c, i>> : i \in 1..Len(replies[c]) } : c \in Clients }

ReplyAt(p) == replies[p[1]][p[2]].frame

Quiescent == \A c \in Clients : pc[c] = "idle" /\ budget[c] = 0

\* C2: with N INCRs of one key sent in all over any number of connections,
\* starting from "0": every reply is an integer of 1..N, no two replies are
\* equal, each connection sees its replies grow, and once all are answered
\* the key holds N and the replies are exactly 1..N.
C2_IncrLinearizable ==
    LET N == Cardinality(Clients) * IncrEach
    IN  /\ \A p \in AllReplies : ReplyAt(p).t = "Integer" /\ ReplyAt(p).n \in 1..N
        /\ \A p, q \in AllReplies : p # q => ReplyAt(p) # ReplyAt(q)
        /\ \A p, q \in AllReplies : p[1] = q[1] /\ p[2] < q[2] => ReplyAt(p).n < ReplyAt(q).n
        /\ Quiescent =>
             /\ dict[IncrKey].value = String(FmtInt(N))
             /\ { ReplyAt(p).n : p \in AllReplies } = 1..N

\* C2 witness: all INCRs are answered and the two connections' increments
\* interleaved: one of them was told 2 and then 4.
C2_Witness ==
    /\ Quiescent
    /\ \E c \in Clients :
        /\ Len(replies[c]) = 2
        /\ replies[c][1].frame = Integer(2)
        /\ replies[c][2].frame = Integer(4)

(***************************************************************************)
(* Two connections sending string and hash commands for one key while the  *)
(* clock runs.                                                             *)
(***************************************************************************)
\* The first connection's peer sends two commands, the second's one.
KvBudget == <<2, 1>>

KvKey == <<Ch.a>>

KvField == <<102>>

KvMenu ==
    { Set(KvKey, <<49>>, FALSE, FALSE, None), Set(KvKey, <<50>>, FALSE, FALSE, Some(1)),
      Get(KvKey), Strlen(KvKey), AppendCmd(KvKey, <<51>>),
      Incr(KvKey), Decr(KvKey), IncrBy(KvKey, 2), DecrBy(KvKey, 2),
      HSet(KvKey, KvField, <<52>>), HGet(KvKey, KvField) }

InitKv ==
    /\ dict = [k \in Keys |-> NoEntry]
    /\ now = 0
    /\ InitLocks(OneShard)
    /\ InitClients(KvBudget)
    /\ FrameUnused /\ BgUnused /\ RdbUnused /\ ConnUnused

NextKv ==
    \/ \E c \in Clients : ReadFrame(c, KvMenu)
    \/ \E c \in Clients : AcquireShared(c)
    \/ \E c \in Clients : CheckExpired(c)
    \/ \E c \in Clients : AcquireExclusive(c)
    \/ \E c \in Clients : Body(c)
    \/ \E c \in Clients : IncDecStore(c)
    \/ \E c \in Clients : AcquireDb(c)
    \/ \E c \in Clients : HashBody(c)
    \/ \E c \in Clients : WriteFrame(c)
    \/ Tick

SpecKv == InitKv /\ [][NextKv]_vars

\* Some other task holds the lock of the shard of the key c works on.
HeldByOthers(c) ==
    LET l == locks[shard_of[cmd[c].key]]
    IN  l.w \ {c} # {} \/ l.r \ {c} # {}

\* C1: an operation on a key whose expire_at has passed first removes the
\* entry and then goes on as if the key had never been there: once it has
\* found the key expired, its removal can go ahead as soon as no other task
\* holds the shard, and a GET that found its key expired replies Null.
C1_LazyExpiration ==
    \A c \in Clients :
        /\ pc[c] = "ce_remove" /\ ~HeldByOthers(c) => ENABLED AcquireExclusive(c)
        /\ \A i \in 1..Len(replies[c]) :
               replies[c][i].expired /\ replies[c][i].cmd.op = "get"
                   => replies[c][i].frame = Null

\* C9: a command that meets a key of another kind replies exactly the
\* WRONGTYPE error and leaves the entry as it was.
C9_WrongTypeRefused ==
    \A p \in AllReplies :
        replies[p[1]][p[2]].mismatch =>
            /\ ReplyAt(p) = ErrMsg(WrongTypeText)
            /\ ~replies[p[1]][p[2]].changed

\* C10: the connection that was sent a WRONGTYPE reply is still served.
C10_OpenAfterWrongType ==
    \A c \in Clients :
        replies[c] # <<>> /\ replies[c][Len(replies[c])].mismatch => pc[c] # "closed"

(***************************************************************************)
(* Background save.  BGSAVE forks: the child owns a copy of the parent's   *)
(* memory as it was at the fork, the keyspace and the state of its shard   *)
(* locks included, and none of the parent's other threads.  It runs        *)
(* Server::save on its copy and exits.                                     *)
(***************************************************************************)
SimpleMsg(msg) == [t |-> "Simple", msg |-> msg]

ScheduledText == "BgAofRewrite schduled"

RdbChild ==
    [dict |-> dict, locks |-> locks, now |-> 0,
     st |-> "running", kind |-> "rdb", todo |-> Shards, phase |-> "create"]

AofChild == [st |-> "running", kind |-> "aof"]

Reply(c, frame) ==
    /\ loc' = [loc EXCEPT ![c].resp = frame]
    /\ pc' = [pc EXCEPT ![c] = "write"]

\* handle_command, Command::Save, Command::BgSave and
\* Command::BgRewriteAof: the tests made before the file is created or a
\* child is started.
BgCheck(c) ==
    /\ pc[c] = "bg_check"
    /\ IF cmd[c].op = "save"
       THEN /\ IF rdb_child_pid # None
               THEN Reply(c, ErrMsg(BgSaveRunningText))
               ELSE pc' = [pc EXCEPT ![c] = "save_create"] /\ UNCHANGED loc
            /\ UNCHANGED aof_rewrite_scheduled
       ELSE IF cmd[c].op = "bgsave"
       THEN /\ IF rdb_child_pid # None
               THEN Reply(c, ErrMsg(BgSaveRunningText))
               ELSE pc' = [pc EXCEPT ![c] = "bg_fork"] /\ UNCHANGED loc
            /\ UNCHANGED aof_rewrite_scheduled
       ELSE IF aof_child_pid # None
       THEN Reply(c, ErrMsg(BgRewriteRunningText)) /\ UNCHANGED aof_rewrite_scheduled
       ELSE IF rdb_child_pid # None
       THEN Reply(c, SimpleMsg(ScheduledText)) /\ aof_rewrite_scheduled' = TRUE
       ELSE pc' = [pc EXCEPT ![c] = "bg_fork"] /\ UNCHANGED <<loc, aof_rewrite_scheduled>>
    /\ UNCHANGED <<dict, locks, shard_of, now, cmd, replies, budget, db_mutex>>
    /\ UNCHANGED <<rdb_child_pid, aof_child_pid, child, rdb_file>>
    /\ UNCHANGED <<frameVars, rdbVars, connVars>>
    /\ UNCHANGED last_save_time

\* Server::background_save: libc::fork() returns the child's pid.
Fork(c) ==
    /\ pc[c] = "bg_fork"
    /\ cmd[c].op = "bgsave"
    /\ child' = child \o <<RdbChild>>
    /\ loc' = [loc EXCEPT ![c].n = Len(child) + 1]
    /\ pc' = [pc EXCEPT ![c] = "bg_record"]
    /\ UNCHANGED <<dict, locks, shard_of, now, cmd, replies, budget, db_mutex>>
    /\ UNCHANGED <<rdb_child_pid, aof_child_pid, aof_rewrite_scheduled, rdb_file>>
    /\ UNCHANGED <<frameVars, rdbVars, connVars>>
    /\ UNCHANGED last_save_time

\* Server::background_save, parent side: rdb_child_pid = Some(child).
BgRecord(c) ==
    /\ pc[c] = "bg_record"
    /\ rdb_child_pid' = Some(loc[c].n)
    /\ Reply(c, Ok)
    /\ UNCHANGED <<dict, locks, shard_of, now, cmd, replies, budget, db_mutex>>
    /\ UNCHANGED <<aof_child_pid, aof_rewrite_scheduled, child, rdb_file>>
    /\ UNCHANGED <<frameVars, rdbVars, connVars>>
    /\ UNCHANGED last_save_time

BgRewriteErrorText == "ERR background rewrite error"

\* rewrite_append_only_file_background: starts the rewrite child and
\* records its pid, or fails and starts none.
StartAofRewrite(c) ==
    /\ pc[c] = "bg_fork"
    /\ cmd[c].op = "bgrewriteaof"
    /\ \E started \in BOOLEAN :
        IF started
        THEN /\ child' = child \o <<AofChild>>
             /\ aof_child_pid' = Some(Len(child) + 1)
             /\ Reply(c, Ok)
        ELSE /\ UNCHANGED <<child, aof_child_pid>>
             /\ Reply(c, ErrMsg(BgRewriteErrorText))
    /\ UNCHANGED <<dict, locks, shard_of, now, cmd, replies, budget, db_mutex>>
    /\ UNCHANGED <<rdb_child_pid, aof_rewrite_scheduled, rdb_file>>
    /\ UNCHANGED <<frameVars, rdbVars, connVars>>
    /\ UNCHANGED last_save_time

IsRdbChild(p) == child[p].kind = "rdb" /\ child[p].st = "running"

LowestShard(S) == CHOOSE s \in S : \A u \in S : s <= u

\* The live entries of shard s in the keyspace d, as save writes them.
SavedOfShard(d, s, started) ==
    { <<k, d[k]>> : k \in { j \in Keys : /\ shard_of[j] = s
                                         /\ d[j] # NoEntry
                                         /\ ~is_expired(d[j], now)
                                         /\ \A x \in d[j].expire_at : ~(x < started) } }

\* Command::Save: File::create makes or truncates the dump file; then
\* Server::save up to the SELECTDB record.
SaveCreate(c) ==
    /\ pc[c] = "save_create"
    /\ rdb_file' = [st |-> "partial", entries |-> {}]
    /\ loc' = [loc EXCEPT ![c].n = now, ![c].todo = Shards]
    /\ pc' = [pc EXCEPT ![c] = "save_iter"]
    /\ UNCHANGED <<dict, locks, shard_of, now, cmd, replies, budget, db_mutex>>
    /\ UNCHANGED <<rdb_child_pid, aof_child_pid, aof_rewrite_scheduled, child>>
    /\ UNCHANGED <<frameVars, rdbVars, connVars>>
    /\ UNCHANGED last_save_time

\* Command::Save, Server::save: db.iter() moves to the next shard, which it
\* locks shared, and save_key_value_pair writes its entries.
SaveShard(c) ==
    /\ pc[c] = "save_iter"
    /\ loc[c].todo # {}
    /\ LET s == LowestShard(loc[c].todo)
       IN /\ CanShare(locks[s])
          /\ rdb_file' = [rdb_file EXCEPT !.entries = @ \cup SavedOfShard(dict, s, loc[c].n)]
          /\ loc' = [loc EXCEPT ![c].todo = @ \ {s}]
    /\ UNCHANGED <<dict, locks, shard_of, now, cmd, replies, budget, db_mutex, pc>>
    /\ UNCHANGED <<rdb_child_pid, aof_child_pid, aof_rewrite_scheduled, child>>
    /\ UNCHANGED <<frameVars, rdbVars, connVars>>
    /\ UNCHANGED last_save_time

\* Command::Save: the EOF opcode, flush and sync_all, then the reply.
SaveDone(c) ==
    /\ pc[c] = "save_iter"
    /\ loc[c].todo = {}
    /\ rdb_file' = [rdb_file EXCEPT !.st = "complete"]
    /\ Reply(c, Ok)
    /\ UNCHANGED <<dict, locks, shard_of, now, cmd, replies, budget, db_mutex>>
    /\ UNCHANGED <<rdb_child_pid, aof_child_pid, aof_rewrite_scheduled, child>>
    /\ UNCHANGED <<frameVars, rdbVars, connVars>>
    /\ UNCHANGED last_save_time

\* The child: File::create, then Server::save up to the SELECTDB record.
ChildCreate(p) ==
    /\ IsRdbChild(p)
    /\ child[p].phase = "create"
    /\ child' = [child EXCEPT ![p].phase = "iter", ![p].now = now]
    /\ rdb_file' = [st |-> "partial", entries |-> {}]
    /\ UNCHANGED <<kvVars, rdb_child_pid, aof_child_pid, aof_rewrite_scheduled>>
    /\ UNCHANGED <<frameVars, rdbVars, connVars>>
    /\ UNCHANGED last_save_time

\* The child: db.iter() moves to the next shard, which it must lock shared,
\* and save_key_value_pair writes its entries.
ChildSaveShard(p) ==
    /\ IsRdbChild(p)
    /\ child[p].phase = "iter"
    /\ child[p].todo # {}
    /\ LET s == LowestShard(child[p].todo)
       IN /\ CanShare(child[p].locks[s])
          /\ rdb_file' = [rdb_file EXCEPT !.entries =
                            @ \cup SavedOfShard(child[p].dict, s, child[p].now)]
          /\ child' = [child EXCEPT ![p].todo = @ \ {s}]
    /\ UNCHANGED <<kvVars, rdb_child_pid, aof_child_pid, aof_rewrite_scheduled>>
    /\ UNCHANGED <<frameVars, rdbVars, connVars>>
    /\ UNCHANGED last_save_time

\* The child: the EOF opcode, flush, sync_all and exit(0).
ChildExit(p) ==
    /\ IsRdbChild(p)
    /\ child[p].phase = "iter"
    /\ child[p].todo = {}
    /\ rdb_file' = [rdb_file EXCEPT !.st = "complete"]
    /\ child' = [child EXCEPT ![p].st = "exited"]
    /\ UNCHANGED <<kvVars, rdb_child_pid, aof_child_pid, aof_rewrite_scheduled>>
    /\ UNCHANGED <<frameVars, rdbVars, connVars>>
    /\ UNCHANGED last_save_time

ChildStep(p) == ChildCreate(p) \/ ChildSaveShard(p) \/ ChildExit(p)

\* The rewrite child finishes.
AofChildExit(p) ==
    /\ child[p].kind = "aof"
    /\ child[p].st = "running"
    /\ child' = [child EXCEPT ![p].st = "exited"]
    /\ UNCHANGED <<kvVars, rdb_child_pid, aof_child_pid, aof_rewrite_scheduled, rdb_file>>
    /\ UNCHANGED <<frameVars, rdbVars, connVars>>
    /\ UNCHANGED last_save_time

\* Housekeeping has seen the snapshot child exit:
\* background_save_done_handler.
BackgroundSaveDone(p) ==
    /\ child[p].kind = "rdb"
    /\ child[p].st = "exited"
    /\ child' = [child EXCEPT ![p].st = "reaped"]
    /\ rdb_child_pid' = None
    /\ UNCHANGED <<kvVars, aof_child_pid, aof_rewrite_scheduled, rdb_file>>
    /\ UNCHANGED <<frameVars, rdbVars, connVars>>
    /\ UNCHANGED last_save_time

\* Housekeeping has seen the rewrite child exit.
AofRewriteDone(p) ==
    /\ child[p].kind = "aof"
    /\ child[p].st = "exited"
    /\ child' = [child EXCEPT ![p].st = "reaped"]
    /\ aof_child_pid' = None
    /\ UNCHANGED <<kvVars, rdb_child_pid, aof_rewrite_scheduled, rdb_file>>
    /\ UNCHANGED <<frameVars, rdbVars, connVars>>
    /\ UNCHANGED last_save_time

(***************************************************************************)
(* Two connections: SETs of a key that is present, with and without NX,    *)
(* BGSAVE and BGREWRITEAOF.                                                *)
(***************************************************************************)
BgBudget == <<2, 1>>

BgKey == <<Ch.a>>

BgMenu ==
    { Set(BgKey, <<50>>, TRUE, FALSE, None), Set(BgKey, <<51>>, FALSE, FALSE, None),
      BgSave, BgRewriteAof, Save }

InitBg ==
    /\ dict = [k \in Keys |-> IF k = BgKey THEN DictValue(String(<<49>>), None) ELSE NoEntry]
    /\ now = 0
    /\ InitLocks(ShardMaps)
    /\ InitClients(BgBudget)
    /\ rdb_child_pid = None
    /\ aof_child_pid = None
    /\ aof_rewrite_scheduled = FALSE
    /\ child = <<>>
    /\ rdb_file = [st |-> "absent"]
    /\ last_save_time = 0
    /\ FrameUnused /\ RdbUnused /\ ConnUnused

NextBg ==
    \/ \E c \in Clients : ReadFrame(c, BgMenu)
    \/ \E c \in Clients : AcquireShared(c)
    \/ \E c \in Clients : CheckExpired(c)
    \/ \E c \in Clients : AcquireExclusive(c)
    \/ \E c \in Clients : Body(c)
    \/ \E c \in Clients : WriteFrame(c)
    \/ \E c \in Clients : BgCheck(c)
    \/ \E c \in Clients : Fork(c)
    \/ \E c \in Clients : BgRecord(c)
    \/ \E c \in Clients : StartAofRewrite(c)
    \/ \E c \in Clients : SaveCreate(c)
    \/ \E c \in Clients : SaveShard(c)
    \/ \E c \in Clients : SaveDone(c)
    \/ \E p \in DOMAIN child : ChildCreate(p)
    \/ \E p \in DOMAIN child : ChildSaveShard(p)
    \/ \E p \in DOMAIN child : ChildExit(p)
    \/ \E p \in DOMAIN child : AofChildExit(p)
    \/ \E p \in DOMAIN child : BackgroundSaveDone(p)
    \/ \E p \in DOMAIN child : AofRewriteDone(p)

SpecBg == InitBg /\ [][NextBg]_vars

\* C7: never are rdb_child_pid and aof_child_pid both set.
C7_ChildExclusive == ~(rdb_child_pid # None /\ aof_child_pid # None)

\* The entries of the keyspace d, as a snapshot file holds them.
SnapshotOf(d) == { <<k, d[k]>> : k \in { j \in Keys : d[j] # NoEntry } }

\* C8: a snapshot child that has not finished can always take its next
\* step, whatever locks other tasks held when it was forked, and a finished
\* dump file holds the keyspace as it was when a child was forked.
C8_ChildNotBlocked ==
    /\ \A p \in DOMAIN child : IsRdbChild(p) => ENABLED ChildStep(p)
    /\ rdb_file.st = "complete" =>
         \E p \in DOMAIN child :
             child[p].kind = "rdb" /\ rdb_file.entries = SnapshotOf(child[p].dict)

(***************************************************************************)
(* The snapshot file format (src/src/rdb.rs).  Integers are written        *)
(* big-endian (tokio's write_u32 / write_u64).                             *)
(***************************************************************************)
REDIS_RDB_TYPE_STRING == 0

REDIS_RDB_TYPE_LIST == 1

REDIS_RDB_TYPE_SET == 2

REDIS_RDB_TYPE_ZSET == 3

REDIS_RDB_TYPE_HASH == 4

REDIS_RDB_OPCODE_EXPIRETIME_MS == 252

REDIS_RDB_OPCODE_EXPIRETIME == 253

REDIS_RDB_OPCODE_SELECTDB == 254

REDIS_RDB_OPCODE_EOF == 255

\* b"REDIS0006"
Magic == <<82, 69, 68, 73, 83, 48, 48, 48, 54>>

SetObject(m) == [m |-> m, kind |-> "set"]

ZSet(z) == [kind |-> "zset", z |-> z]

\* Numbers from HugeNum up are not told apart: what is read from a file is
\* kept exact below it and is HugeNum from it up.
HugeNum == 256 * 256 * 256 * 64

U32(n) == <<(n \div (256 * 256 * 256)) % 256, (n \div (256 * 256)) % 256, (n \div 256) % 256, n % 256>>

\* Values written are below 2^32: the upper half of a u64 is zero.
U64(n) == <<0, 0, 0, 0>> \o U32(n)

RECURSIVE SeqOf(_)
\* The elements of a finite set in the order an iterator yields them.
SeqOf(S) == IF S = {} THEN <<>> ELSE LET x == CHOOSE y \in S : TRUE IN <<x>> \o SeqOf(S \ {x})

\* write_u32(len) then write_all(bytes).
SaveBytes(b) == U32(Len(b)) \o b

\* save_object_type
SaveObjectType(o) ==
    CASE o.kind = "string" -> <<REDIS_RDB_TYPE_STRING>>
      [] o.kind = "list" -> <<REDIS_RDB_TYPE_LIST>>
      [] o.kind = "set" -> <<REDIS_RDB_TYPE_SET>>
      [] o.kind = "hash" -> <<REDIS_RDB_TYPE_HASH>>
      [] o.kind = "zset" -> <<REDIS_RDB_TYPE_ZSET>>

\* save_object, for the kinds of value the keyspace of this model holds.
SaveObject(o) ==
    CASE o.kind = "string" -> SaveBytes(o.s)
      [] o.kind = "list" ->
           U32(Len(o.l)) \o Concat([i \in 1..Len(o.l) |-> SaveBytes(o.l[i])])
      [] o.kind = "hash" ->
           LET ks == SeqOf(DOMAIN o.h)
           IN  U32(Len(ks)) \o
               Concat([i \in 1..Len(ks) |-> SaveBytes(ks[i]) \o SaveBytes(o.h[ks[i]])])

\* save_key_value_pair
SaveKeyValuePair(key, value, expire, t) ==
    IF \E expire_ms \in expire : expire_ms < t THEN <<>>
    ELSE Concat([i \in 1..Len(SeqOf(expire)) |->
                    <<REDIS_RDB_OPCODE_EXPIRETIME_MS>> \o U64(SeqOf(expire)[i])])
         \o SaveObjectType(value) \o SaveBytes(key) \o SaveObject(value)

\* Server::save over the entries in the order db.iter() yields them; t is
\* the clock when it runs, db_index the index of the handle self.get(0)
\* returns.
ServerSave(db_index, entries, t) ==
    Magic \o <<REDIS_RDB_OPCODE_SELECTDB>> \o U32(db_index)
    \o Concat([i \in 1..Len(entries) |->
                 IF is_expired(entries[i], t) THEN <<>>
                 ELSE SaveKeyValuePair(entries[i].key, entries[i].value,
                                       entries[i].expire_at, t)])
    \o <<REDIS_RDB_OPCODE_EOF>>

\* What a read leaves: whether it succeeded, the value, the new position.
Rd(ok, v, pos) == [pos |-> pos, ok |-> ok, v |-> v]

\* The number the big-endian bytes bs stand for, HugeNum if that or more.
RECURSIVE BigEndian(_)
BigEndian(bs) ==
    IF bs = <<>> THEN 0
    ELSE The({ IF hi >= HugeNum \div 256 THEN HugeNum ELSE hi * 256 + bs[Len(bs)] :
               hi \in {BigEndian(SubSeq(bs, 1, Len(bs) - 1))} })

\* read_exact into a buffer of n bytes: all of them or UnexpectedEof.
ReadExact(bytes, pos, n) ==
    IF pos + n <= Len(bytes) THEN Rd(TRUE, SubSeq(bytes, pos + 1, pos + n), pos + n)
    ELSE Rd(FALSE, <<>>, pos)

ReadU8(bytes, pos) ==
    IF pos + 1 <= Len(bytes) THEN Rd(TRUE, bytes[pos + 1], pos + 1) ELSE Rd(FALSE, 0, pos)

ReadInt(bytes, pos, width) ==
    The({ IF r.ok THEN Rd(TRUE, BigEndian(r.v), r.pos) ELSE Rd(FALSE, 0, pos) :
          r \in {ReadExact(bytes, pos, width)} })

\* What a step of load leaves: "ok", "err" (an Err is returned), "panic"
\* (load_object met a type it does not know), or "abort" (an allocation as
\* large as a length read from the file failed).
Ld(res, v, pos) == [res |-> res, pos |-> pos, v |-> v]

\* The length of BytesMut::with_capacity(len): capacity is not length.
WithCapacityLen(len) == 0

\* load_string_object: read_u32, with_capacity, then read_exact into the
\* new buffer.  bigAlloc: whether an allocation of HugeNum elements succeeds.
LoadStringObject(bytes, pos, bigAlloc) ==
    The({ IF ~len.ok THEN Ld("err", <<>>, pos)
          ELSE IF len.v >= HugeNum /\ ~bigAlloc THEN Ld("abort", <<>>, pos)
          ELSE The({ Ld(IF r.ok THEN "ok" ELSE "err", r.v, r.pos) :
                     r \in {ReadExact(bytes, len.pos, WithCapacityLen(len.v))} }) :
          len \in {ReadInt(bytes, pos, 4)} })

\* load_object's loops: n times, load_string_object and then, per kind, a
\* second string (hash) or an f64 (zset).  acc collects what was read.
RECURSIVE LoadItems(_, _, _, _, _, _)
LoadItems(bytes, pos, n, kind, acc, bigAlloc) ==
    IF n = 0 THEN Ld("ok", acc, pos)
    ELSE The({ IF k.res # "ok" THEN Ld(k.res, acc, pos)
               ELSE IF kind \in {"list", "set"}
               THEN LoadItems(bytes, k.pos, n - 1, kind, Append(acc, <<k.v>>), bigAlloc)
               ELSE The({ IF v.res # "ok" THEN Ld(v.res, acc, pos)
                          ELSE LoadItems(bytes, v.pos, n - 1, kind,
                                         Append(acc, <<k.v, v.v>>), bigAlloc) :
                          v \in { IF kind = "hash" THEN LoadStringObject(bytes, k.pos, bigAlloc)
                                  ELSE The({ Ld(IF f.ok THEN "ok" ELSE "err", f.v, f.pos) :
                                             f \in {ReadExact(bytes, k.pos, 8)} }) } }) :
               k \in {LoadStringObject(bytes, pos, bigAlloc)} })

\* The object the items read make up; a later item replaces an equal key.
RECURSIVE PairsToMap(_)
PairsToMap(items) ==
    IF items = <<>> THEN <<>>
    ELSE (items[Len(items)][1] :> items[Len(items)][2]) @@
         PairsToMap(SubSeq(items, 1, Len(items) - 1))

ObjectOf(kind, items) ==
    CASE kind = "list" -> List([i \in 1..Len(items) |-> items[i][1]])
      [] kind = "set" -> SetObject({ items[i][1] : i \in 1..Len(items) })
      [] kind = "hash" -> Hash(PairsToMap(items))
      [] kind = "zset" -> ZSet(PairsToMap(items))

KindOfType(obj_type) ==
    CASE obj_type = REDIS_RDB_TYPE_LIST -> "list"
      [] obj_type = REDIS_RDB_TYPE_SET -> "set"
      [] obj_type = REDIS_RDB_TYPE_ZSET -> "zset"
      [] obj_type = REDIS_RDB_TYPE_HASH -> "hash"
      [] OTHER -> "string"

\* load_object.  The list, set and hash are created with_capacity(len), the
\* zset is not.
LoadObject(bytes, pos, obj_type, bigAlloc) ==
    IF obj_type = REDIS_RDB_TYPE_STRING
    THEN The({ Ld(r.res, String(r.v), r.pos) : r \in {LoadStringObject(bytes, pos, bigAlloc)} })
    ELSE IF obj_type \in {REDIS_RDB_TYPE_LIST, REDIS_RDB_TYPE_SET,
                          REDIS_RDB_TYPE_ZSET, REDIS_RDB_TYPE_HASH}
    THEN The({ IF ~len.ok THEN Ld("err", NoEntry, pos)
               ELSE IF len.v >= HugeNum /\ ~bigAlloc /\ obj_type # REDIS_RDB_TYPE_ZSET
               THEN Ld("abort", NoEntry, pos)
               ELSE The({ IF r.res = "ok"
                          THEN Ld("ok", ObjectOf(KindOfType(obj_type), r.v), r.pos)
                          ELSE Ld(r.res, NoEntry, pos) :
                          r \in {LoadItems(bytes, len.pos, len.v, KindOfType(obj_type),
                                           <<>>, bigAlloc)} }) :
               len \in {ReadInt(bytes, pos, 4)} })
    ELSE Ld("panic", NoEntry, pos)

\* Server::load after the magic: the loop over records.  db: whether a
\* SELECTDB has been read; acc: the keyspace so far; t: the clock when load
\* started.
RECURSIVE LoadLoop(_, _, _, _, _, _)
LoadRecord(bytes, pos, obj_type, expire_ms, db, acc, t, bigAlloc) ==
    The({ IF key.res # "ok" THEN Ld(key.res, acc, pos)
          ELSE The({ IF value.res # "ok" THEN Ld(value.res, acc, pos)
                     ELSE IF \E x \in expire_ms : x < t
                     THEN LoadLoop(bytes, value.pos, db, acc, t, bigAlloc)
                     ELSE IF ~db THEN Ld("err", acc, pos)
                     ELSE LoadLoop(bytes, value.pos, db,
                                   (key.v :> DictValue(value.v, expire_ms)) @@ acc, t, bigAlloc) :
                     value \in {LoadObject(bytes, key.pos, obj_type, bigAlloc)} }) :
          key \in {LoadStringObject(bytes, pos, bigAlloc)} })

\* The type byte that follows an expire opcode, then the record.
LoadExpiring(bytes, e, scale, db, acc, t, bigAlloc) ==
    IF ~e.ok THEN Ld("err", acc, e.pos)
    ELSE The({ IF ~opcode.ok THEN Ld("err", acc, e.pos)
               ELSE LoadRecord(bytes, opcode.pos, opcode.v,
                               Some(IF e.v >= HugeNum \div scale THEN HugeNum ELSE scale * e.v),
                               db, acc, t, bigAlloc) :
               opcode \in {ReadU8(bytes, e.pos)} })

LoadLoop(bytes, pos, db, acc, t, bigAlloc) ==
    The({ IF ~opcode.ok THEN Ld("err", acc, pos)
          ELSE IF opcode.v = REDIS_RDB_OPCODE_EOF THEN Ld("ok", acc, opcode.pos)
          ELSE IF opcode.v = REDIS_RDB_OPCODE_SELECTDB
          THEN The({ IF ~db_index.ok \/ db_index.v >= 1 THEN Ld("err", acc, pos)
                     ELSE LoadLoop(bytes, db_index.pos, TRUE, acc, t, bigAlloc) :
                     db_index \in {ReadInt(bytes, opcode.pos, 4)} })
          ELSE IF opcode.v = REDIS_RDB_OPCODE_EXPIRETIME_MS
          THEN LoadExpiring(bytes, ReadInt(bytes, opcode.pos, 8), 1, db, acc, t, bigAlloc)
          ELSE IF opcode.v = REDIS_RDB_OPCODE_EXPIRETIME
          THEN LoadExpiring(bytes, ReadInt(bytes, opcode.pos, 4), 1000, db, acc, t, bigAlloc)
          ELSE LoadRecord(bytes, opcode.pos, opcode.v, None, db, acc, t, bigAlloc) :
          opcode \in {ReadU8(bytes, pos)} })

\* Server::load into an empty keyspace.
ServerLoad(bytes, t, bigAlloc) ==
    The({ IF ~magic.ok \/ magic.v # Magic THEN Ld("err", <<>>, magic.pos)
          ELSE LoadLoop(bytes, magic.pos, FALSE, <<>>, t, bigAlloc) :
          magic \in {ReadExact(bytes, 0, 9)} })

(***************************************************************************)
(* SAVE, wipe, load: keyspaces of up to two keys holding strings, a list   *)
(* and a hash, with and without expire, saved at one clock reading and     *)
(* loaded at the same or a later one.                                      *)
(***************************************************************************)
RdbValues ==
    { String(<<>>), String(<<49, 50>>), List(<<<<51>>>>), Hash(<<102>> :> <<52>>) }

RdbExpires == { None, Some(1), Some(3) }

RdbClocks == { <<0, 0>>, <<0, 2>>, <<2, 2>>, <<2, 4>> }

RdbEntry(key, value, expire_at) == [value |-> value, expire_at |-> expire_at, key |-> key]

RdbEntries == { RdbEntry(k, v, e) : k \in Keys, v \in RdbValues, e \in RdbExpires }

\* The keyspaces, as the sequence of entries db.iter() yields.
RdbKeyspaces ==
    {<<>>} \cup { <<x>> : x \in RdbEntries }
           \cup { <<x, y>> : x \in { z \in RdbEntries : z.key = <<Ch.a>> },
                             y \in { z \in RdbEntries : z.key = <<Ch.e>> } }
           \cup { <<y, x>> : x \in { z \in RdbEntries : z.key = <<Ch.a>> /\ z.expire_at = None },
                             y \in { z \in RdbEntries : z.key = <<Ch.e>> /\ z.expire_at = None } }

InitRdb ==
    /\ \E ks \in RdbKeyspaces, clocks \in RdbClocks :
         rdb_src = [st |-> "ready", entries |-> ks, saved_at |-> clocks[1], loaded_at |-> clocks[2]]
    /\ rdb_bytes = <<>>
    /\ rdb_out = [st |-> "none"]
    /\ ID = 1 /\ dbs = {0}
    /\ FrameUnused /\ KvUnused /\ BgUnused /\ ConnUnused

\* SAVE writes the file.
RdbSave ==
    /\ rdb_src.st = "ready"
    /\ rdb_bytes' = ServerSave(The(dbs), rdb_src.entries, rdb_src.saved_at)
    /\ rdb_src' = [rdb_src EXCEPT !.st = "saved"]
    /\ UNCHANGED <<rdb_out, ID, dbs>>
    /\ UNCHANGED <<frameVars, kvVars, bgVars, connVars>>

\* A server with an empty keyspace loads it.
RdbLoad ==
    /\ rdb_src.st = "saved"
    /\ \E bigAlloc \in BOOLEAN :
         \E r \in {ServerLoad(rdb_bytes, rdb_src.loaded_at, bigAlloc)} :
            rdb_out' = [dict |-> r.v, res |-> r.res, st |-> "done"]
    /\ rdb_src' = [rdb_src EXCEPT !.st = "loaded"]
    /\ UNCHANGED <<rdb_bytes, ID, dbs>>
    /\ UNCHANGED <<frameVars, kvVars, bgVars, connVars>>

NextRdb == RdbSave \/ RdbLoad

SpecRdb == InitRdb /\ [][NextRdb]_vars

\* The keyspace the entries make up, without those whose expire is in the
\* past at t.
RECURSIVE KeyspaceAt(_, _)
KeyspaceAt(entries, t) ==
    IF entries = <<>> THEN <<>>
    ELSE IF \E x \in Head(entries).expire_at : x < t THEN KeyspaceAt(Tail(entries), t)
    ELSE (Head(entries).key :> DictValue(Head(entries).value, Head(entries).expire_at))
         @@ KeyspaceAt(Tail(entries), t)

\* C6: load succeeds on what save wrote and yields the saved keyspace, same
\* keys, values and expires, less the keys whose expire is in the past when
\* it is loaded.
C6_RdbRoundTrip ==
    rdb_out.st = "done" =>
        /\ rdb_out.res = "ok"
        /\ rdb_out.dict = KeyspaceAt(rdb_src.entries, rdb_src.loaded_at)

(***************************************************************************)
(* Command::from: the command and its arguments are taken from the parts   *)
(* of an Array frame through a CommandParser.  A parser is the sequence of *)
(* the parts not yet taken.                                                *)
(***************************************************************************)
\* The names Command::from matches on, and the option words of SET.
Names ==
    [config |-> <<99, 111, 110, 102, 105, 103>>, expire |-> <<101, 120, 112, 105, 114, 101>>,
     incr |-> <<105, 110, 99, 114>>, nx |-> <<110, 120>>,
     xx |-> <<120, 120>>,
     ping |-> <<112, 105, 110, 103>>,
     quit |-> <<113, 117, 105, 116>>,
     get |-> <<103, 101, 116>>,
     set |-> <<115, 101, 116>>,
     setnx |-> <<115, 101, 116, 110, 120>>,
     append |-> <<97, 112, 112, 101, 110, 100>>, strlen |-> <<115, 116, 114, 108, 101, 110>>,
     incrby |-> <<105, 110, 99, 114, 98, 121>>,
     decr |-> <<100, 101, 99, 114>>,
     decrby |-> <<100, 101, 99, 114, 98, 121>>,
     del |-> <<100, 101, 108>>,
     exists |-> <<101, 120, 105, 115, 116, 115>>,
     select |-> <<115, 101, 108, 101, 99, 116>>,
     keys |-> <<107, 101, 121, 115>>,
     dbsize |-> <<100, 98, 115, 105, 122, 101>>,
     shutdown |-> <<115, 104, 117, 116, 100, 111, 119, 110>>,
     rename |-> <<114, 101, 110, 97, 109, 101>>,
     expireat |-> <<101, 120, 112, 105, 114, 101, 97, 116>>, pexpire |-> <<112, 101, 120, 112, 105, 114, 101>>,
     pexpireat |-> <<112, 101, 120, 112, 105, 114, 101, 97, 116>>, type |-> <<116, 121, 112, 101>>,
     lpush |-> <<108, 112, 117, 115, 104>>, rpush |-> <<114, 112, 117, 115, 104>>,
     lpop |-> <<108, 112, 111, 112>>, rpop |-> <<114, 112, 111, 112>>,
     hset |-> <<104, 115, 101, 116>>, hget |-> <<104, 103, 101, 116>>,
     sadd |-> <<115, 97, 100, 100>>,
     srem |-> <<115, 114, 101, 109>>,
     save |-> <<115, 97, 118, 101>>, bgsave |-> <<98, 103, 115, 97, 118, 101>>,
     bgrewriteaof |-> <<98, 103, 114, 101, 119, 114, 105, 116, 101, 97, 111, 102>>, ex |-> <<101, 120>>, px |-> <<112, 120>>]

\* The names of the table whose commands this model does not follow.
OtherNames ==
    { Names.ping, Names.del, Names.exists, Names.keys,
      Names.shutdown, Names.rename, Names.expire, Names.expireat, Names.pexpire,
      Names.pexpireat, Names.type, Names.sadd, Names.srem, Names.config }

to_ascii_lowercase(s) == [i \in 1..Len(s) |-> IF s[i] >= 65 /\ s[i] <= 90 THEN s[i] + 32 ELSE s[i]]

\* `as usize` of an i64: a negative number becomes one of the
\* upper half of the unsigned range, which is HugeNum here.
AsUnsigned(n) == IF n < 0 THEN HugeNum ELSE n

\* CommandParser::next_string
next_string(parts) ==
    IF parts = <<>> THEN [res |-> "none", v |-> <<>>, rest |-> parts]
    ELSE IF parts[1].t \in {"Simple", "Bulk"}
    THEN [res |-> "some", v |-> parts[1].b, rest |-> Tail(parts)]
    ELSE [res |-> "err", v |-> <<>>, rest |-> Tail(parts)]

\* CommandParser::next_integer
next_integer(parts) ==
    IF parts = <<>> THEN [res |-> "none", n |-> 0, rest |-> parts]
    ELSE IF parts[1].t = "Integer"
    THEN [res |-> "some", n |-> parts[1].n, rest |-> Tail(parts)]
    ELSE IF parts[1].t = "Bulk" /\ Utf8Valid(parts[1].b) /\ FromStr(parts[1].b, TRUE).ok
    THEN [res |-> "some", n |-> FromStr(parts[1].b, TRUE).n, rest |-> Tail(parts)]
    ELSE [res |-> "err", n |-> 0, rest |-> Tail(parts)]

\* What from() returns: Ok(command) with the parts left over, or Err.
Parsed(res, m, rest) == [cmd |-> m, res |-> res, rest |-> rest]

Failed == Parsed("err", Cmd("none", <<>>), <<>>)

\* Get::from, Strlen::from, Incr::from, Decr::from: a key.
KeyFrom(parts, op) ==
    LET key == next_string(parts)
    IN  IF key.res # "some" THEN Failed
        ELSE Parsed("ok", CASE op = "get" -> Get(key.v)
                            [] op = "strlen" -> Strlen(key.v)
                            [] op = "incr" -> Incr(key.v)
                            [] OTHER -> Decr(key.v), key.rest)

\* IncrBy::from, DecrBy::from: a key and an integer.
KeyIntegerFrom(parts, op) ==
    LET key == next_string(parts)
        n == next_integer(key.rest)
    IN  IF key.res # "some" \/ n.res # "some" THEN Failed
        ELSE Parsed("ok", IF op = "incrby" THEN IncrBy(key.v, n.n) ELSE DecrBy(key.v, n.n), n.rest)

\* The largest value Append::from accepts: 512 * 1024 * 1024 bytes in the
\* source, scaled to a length the model can reach.
AppendMax == 4

\* Append::from: a key and a value of at most AppendMax bytes.
AppendFrom(parts) ==
    LET key == next_string(parts)
        value == next_string(key.rest)
    IN  IF key.res # "some" \/ value.res # "some" THEN Failed
        ELSE IF Len(value.v) > AppendMax THEN Failed
        ELSE Parsed("ok", AppendCmd(key.v, value.v), value.rest)

\* Set::from, the loop over the options.  `maybe_time as u64` and
\* `time * 1000` are on 64 bits; checked is whether the build checks
\* overflow, and then a product that leaves the range panics.
RECURSIVE SetOptions(_, _, _)
SetOptions(parts, m, checked) ==
    IF parts = <<>> THEN Parsed("ok", m, parts)
    ELSE LET o == next_string(parts)
             val == to_ascii_lowercase(o.v)
             time == next_integer(o.rest)
         IN  IF o.res # "some" THEN Failed
             ELSE IF val = Names.nx THEN SetOptions(o.rest, [m EXCEPT !.nx = TRUE], checked)
             ELSE IF val = Names.xx THEN SetOptions(o.rest, [m EXCEPT !.xx = TRUE], checked)
             ELSE IF val = Names.ex
             THEN IF time.res # "some" THEN Failed
                  ELSE IF checked /\ ~InU64(WrapU64(time.n) * 1000)
                  THEN Parsed("panic", m, <<>>)
                  ELSE SetOptions(time.rest,
                                  [m EXCEPT !.expire = Some(WrapU64(WrapU64(time.n) * 1000))],
                                  checked)
             ELSE IF val = Names.px
             THEN IF time.res # "some" THEN Failed
                  ELSE SetOptions(time.rest, [m EXCEPT !.expire = Some(WrapU64(time.n))],
                                  checked)
             ELSE Failed

\* Set::from
SetFrom(parts, checked) ==
    IF Len(parts) < 2 THEN Failed
    ELSE LET key == next_string(parts)
             val == next_string(key.rest)
         IN  IF key.res # "some" \/ val.res # "some" THEN Failed
             ELSE SetOptions(val.rest, Set(key.v, val.v, FALSE, FALSE, None), checked)

\* SetNx::from
SetNxFrom(parts) ==
    IF Len(parts) < 2 THEN Failed
    ELSE LET key == next_string(parts)
             val == next_string(key.rest)
         IN  IF key.res # "some" \/ val.res # "some" THEN Failed
             ELSE Parsed("ok", SetNx(key.v, val.v), val.rest)

\* HSet::from and HGet::from
HashFrom(parts, op) ==
    LET key == next_string(parts)
        field == next_string(key.rest)
        value == next_string(field.rest)
    IN  IF key.res # "some" \/ field.res # "some" THEN Failed
        ELSE IF op = "hget" THEN Parsed("ok", HGet(key.v, field.v), field.rest)
        ELSE IF value.res # "some" THEN Failed
        ELSE Parsed("ok", HSet(key.v, field.v, value.v), value.rest)

\* Select::from: the index.
SelectFrom(parts) ==
    LET i == next_integer(parts)
    IN  IF i.res # "some" THEN Failed ELSE Parsed("ok", Select(i.n), i.rest)

\* ListPush::from(parser, left): a key and one value or more.
ListPushFrom(parts, op, left) ==
    LET key == next_string(parts)
    IN  IF key.res # "some" \/ key.rest = <<>> THEN Failed
        ELSE IF \E i \in 1..Len(key.rest) : key.rest[i].t \notin {"Simple", "Bulk"} THEN Failed
        ELSE Parsed("ok", ListPush(op, key.v, [i \in 1..Len(key.rest) |-> key.rest[i].b], left),
                    <<>>)

\* ListPop::from(parser, left): a key.
ListPopFrom(parts, op, left) ==
    LET key == next_string(parts)
    IN  IF key.res # "some" THEN Failed ELSE Parsed("ok", ListPop(op, key.v, left), key.rest)

\* parser.has_next(), once the command has taken its arguments.
HasNextSkipped(rest) == FALSE

HasNext(rest) == rest # <<>>

\* Command::from
CommandFrom(frame) ==
    IF frame.t # "Array" THEN Parsed("panic", Cmd("none", <<>>), <<>>)
    ELSE LET c == next_string(frame.a)
             name == to_ascii_lowercase(c.v)
             r == CASE name \in {Names.get, Names.strlen, Names.incr, Names.decr} ->
                         KeyFrom(c.rest, CASE name = Names.get -> "get"
                                           [] name = Names.strlen -> "strlen"
                                           [] name = Names.incr -> "incr"
                                           [] OTHER -> "decr")
                    [] name = Names.set -> SetFrom(c.rest, FALSE)
                    [] name = Names.setnx -> SetNxFrom(c.rest)
                    [] name = Names.append -> AppendFrom(c.rest)
                    [] name = Names.incrby -> KeyIntegerFrom(c.rest, "incrby")
                    [] name = Names.decrby -> KeyIntegerFrom(c.rest, "decrby")
                    [] name = Names.select -> SelectFrom(c.rest)
                    [] name = Names.dbsize -> Parsed("ok", DbSize, c.rest)
                    [] name = Names.lpush -> ListPushFrom(c.rest, "lpush", TRUE)
                    [] name = Names.rpush -> ListPushFrom(c.rest, "rpush", TRUE)
                    [] name = Names.lpop -> ListPopFrom(c.rest, "lpop", TRUE)
                    [] name = Names.rpop -> ListPopFrom(c.rest, "rpop", FALSE)
                    [] name = Names.hset -> HashFrom(c.rest, "hset")
                    [] name = Names.hget -> HashFrom(c.rest, "hget")
                    [] name = Names.save -> Parsed("ok", Save, c.rest)
                    [] name = Names.bgsave -> Parsed("ok", BgSave, c.rest)
                    [] name = Names.bgrewriteaof -> Parsed("ok", BgRewriteAof, c.rest)
                    [] name = Names.quit -> Parsed("ok", Quit, c.rest)
                    [] name \in OtherNames -> Parsed("other", Cmd("none", <<>>), <<>>)
                    [] OTHER -> Parsed("ok", Unknown(c.v), c.rest)
         IN  IF c.res # "some" THEN Failed
             ELSE IF r.res = "ok" /\ HasNext(r.rest) THEN Failed
             ELSE r

(***************************************************************************)
(* The connection handler, Client::handle_client: read a frame, make a     *)
(* command of it, run it, write the reply, and again.                      *)
(*   arm        in an arm of handle_command that only replies              *)
(*   panicked   the task has panicked: the connection is dropped           *)
(***************************************************************************)
SyntaxErrText == "ERR syntax error"

ProtocolErrText == "ERR Protocol error"

InvalidDbText == "ERR invalid db index"

\* Unknown::apply: the error names the command.
UnknownErr(name) == [t |-> "Error", name |-> name, msg |-> "ERR unknown command"]

\* A reply that handle_client writes itself, to the request req.
Written(frame, req) ==
    [cmd |-> Cmd("none", <<>>), frame |-> frame, mismatch |-> FALSE, expired |-> FALSE,
     changed |-> FALSE, req |-> req]

\* read_frame's Err, for the bytes w that Frame::parse refused.
ProtocolError(w) == [t |-> "ProtocolError", w |-> w]

\* Where handle_client goes once it has answered a protocol error: on to
\* the next frame, or out.
ProtocolErrorContinues == "idle"

ProtocolErrorReturns == "closed"

\* handle_client, one turn of the loop up to execute_cmd: read_frame hands
\* over what Frame::parse made of the bytes w the peer sent.  A protocol
\* error is answered and ends the handler; a frame is counted as received
\* and goes to Command::from, whose error is answered before the loop
\* continues.
\* Command::from where the build checks overflow: Set::from panics on a
\* product that leaves the range.
CommandFromChecked(frame) ==
    IF /\ frame.t = "Array"
       /\ to_ascii_lowercase(next_string(frame.a).v) = Names.set
       /\ SetFrom(next_string(frame.a).rest, TRUE).res = "panic"
    THEN Parsed("panic", Cmd("none", <<>>), <<>>)
    ELSE CommandFrom(frame)

\* handle_command: the arm of the command, or the panic of DecrBy::apply,
\* whose `-self.decrement` has no value for i64::MIN where the build checks
\* overflow (the command then carries the wrapped negation, i64::MIN).
Applies(m) ==
    {Dispatch(m)} \cup (IF m.op = "decrby" /\ m.incr = MinI64 THEN {"panicked"} ELSE {})

ReadRequest(c, wires) ==
    /\ pc[c] = "idle"
    /\ budget[c] > 0
    /\ budget' = [budget EXCEPT ![c] = @ - 1]
    /\ \E w \in wires : \E r \in {Parse(w, 0)} :
        IF r.res = "frame"
        THEN /\ recv' = [recv EXCEPT ![c] = Append(@, r.frame)]
             /\ loc' = [loc EXCEPT ![c] = [Loc0 EXCEPT !.req = r.frame]]
             /\ \E p \in {CommandFrom(r.frame), CommandFromChecked(r.frame)} :
                 IF p.res = "ok"
                 THEN /\ cmd' = [cmd EXCEPT ![c] = p.cmd]
                      /\ \E d \in Applies(p.cmd) : pc' = [pc EXCEPT ![c] = d]
                      /\ UNCHANGED replies
                 ELSE IF p.res = "err"
                 THEN /\ replies' = [replies EXCEPT ![c] =
                                       Append(@, Written(ErrMsg(SyntaxErrText), r.frame))]
                      /\ UNCHANGED <<cmd, pc>>
                 ELSE /\ pc' = [pc EXCEPT ![c] = IF p.res = "panic" THEN "panicked" ELSE "other"]
                      /\ UNCHANGED <<cmd, replies>>
        ELSE IF r.res = "err"
        THEN /\ replies' = [replies EXCEPT ![c] =
                              Append(@, Written(ErrMsg(ProtocolErrText), NoFrame))]
             /\ pc' = [pc EXCEPT ![c] = ProtocolErrorReturns]
             /\ loc' = [loc EXCEPT ![c] = Loc0]
             /\ recv' = [recv EXCEPT ![c] = Append(@, ProtocolError(w))]
             /\ UNCHANGED cmd
        ELSE /\ r.res = "panic"
             /\ pc' = [pc EXCEPT ![c] = "panicked"]
             /\ loc' = [loc EXCEPT ![c] = Loc0]
             /\ UNCHANGED <<cmd, recv, replies>>
    /\ UNCHANGED <<dict, locks, shard_of, now, db_mutex, index, quit_ch, config, cfg_guards>>
    /\ UNCHANGED <<frameVars, bgVars, rdbVars>>

\* handle_client: read_frame returns None, the peer has closed.
PeerClosed(c) ==
    /\ pc[c] = "idle"
    /\ budget[c] = 0
    /\ pc' = [pc EXCEPT ![c] = "closed"]
    /\ UNCHANGED <<dict, locks, shard_of, now, cmd, loc, replies, budget, db_mutex>>
    /\ UNCHANGED <<frameVars, bgVars, rdbVars, connVars>>

\* The number of databases: self.dbs.len().
DbsLen == 1

\* A select that takes any index.
SelectUnchecked(i, cur) == [index |-> i, ok |-> TRUE]

\* Client::select
ClientSelect(i, cur) ==
    IF i >= DbsLen THEN [index |-> cur, ok |-> FALSE] ELSE [index |-> i, ok |-> TRUE]

\* handle_command, the arms of Select, DbSize and Unknown.
Arm(c) ==
    /\ pc[c] = "arm"
    /\ \E s \in {ClientSelect(AsUnsigned(cmd[c].index), index[c])} :
        /\ index' = [index EXCEPT ![c] = IF cmd[c].op = "select" THEN s.index ELSE @]
        /\ Reply(c, CASE cmd[c].op = "select" -> IF s.ok THEN Ok ELSE ErrMsg(InvalidDbText)
                      [] cmd[c].op = "dbsize" -> Integer(1)
                      [] OTHER -> UnknownErr(cmd[c].val))
    /\ UNCHANGED <<dict, locks, shard_of, now, cmd, replies, budget, db_mutex, recv, quit_ch, config, cfg_guards>>
    /\ UNCHANGED <<frameVars, bgVars, rdbVars>>

(***************************************************************************)
(* One connection whose peer sends three requests.                         *)
(***************************************************************************)
ConnBudget == <<3>>

\* Words the peer sends.
Words ==
    [b |-> <<98>>, x |-> <<120>>,
     hi |-> <<104, 105>>, z |-> <<122>>,
     y |-> <<121>>, PING |-> <<80, 73, 78, 71>>,
     GET |-> <<71, 69, 84>>,
     SET |-> <<83, 69, 84>>, INCR |-> <<73, 78, 67, 82>>,
     DECR |-> <<68, 69, 67, 82>>, INCRBY |-> <<73, 78, 67, 82, 66, 89>>,
     DECRBY |-> <<68, 69, 67, 82, 66, 89>>,
     RPUSH |-> <<82, 80, 85, 83, 72>>, LPUSH |-> <<76, 80, 85, 83, 72>>,
     LPOP |-> <<76, 80, 79, 80>>, RPOP |-> <<82, 80, 79, 80>>, DBSIZE |-> <<68, 66, 83, 73, 90, 69>>,
     SELECT |-> <<83, 69, 76, 69, 67, 84>>, FOO |-> <<70, 79, 79>>, eCHO |-> <<101, 67, 72, 79>>, zz |-> <<122, 122>>]

ConnKey == <<Ch.a>>

ListKey == <<Ch.e>>

\* A request as clients send it: an array of bulk strings.
Request(parts) == Array([i \in 1..Len(parts) |-> Bulk(parts[i])])

ConnRequests ==
    { Request(<<Words.GET, ConnKey>>), Request(<<Words.SET, ConnKey, <<49, 48>>>>),
      Request(<<Words.SET, ConnKey, Words.x>>),
      Request(<<Words.INCR, ConnKey>>), Request(<<Words.DECR, ConnKey>>),
      Request(<<Words.INCRBY, ConnKey, <<53>>>>), Request(<<Words.DECRBY, ConnKey, <<51>>>>),
      Request(<<Words.RPUSH, ListKey, Words.x, Words.y, Words.z>>),
      Request(<<Words.LPUSH, ListKey, Words.x, Words.y>>),
      Request(<<Words.LPOP, ListKey>>), Request(<<Words.RPOP, ListKey>>),
      Request(<<Words.DBSIZE>>),
      Request(<<Words.SELECT, <<48>>>>), Request(<<Words.SELECT, <<49>>>>),
      Request(<<Words.SELECT, <<45, 49>>>>),
      Request(<<Words.FOO>>), Request(<<Words.FOO, Words.x>>),
      Request(<<Words.eCHO, Words.hi>>),
      Request(<<Words.GET>>), Request(<<Words.GET, ConnKey, Words.b>>),
      Request(<<Words.SET, ConnKey, Words.x, Words.zz>>),
      Simple(Words.PING) }

\* Bytes that are no frame: "!", ":a\r\n", "$\xFF\r\n".
ConnMalformed ==
    { <<33>>, <<Ch.colon, Ch.a, Ch.cr, Ch.lf>>, <<Ch.dollar, 255, Ch.cr, Ch.lf>> }

ConnWires == { Wire(f) : f \in ConnRequests } \cup ConnMalformed

InitConn ==
    /\ dict = [k \in Keys |-> NoEntry]
    /\ now = 0
    /\ InitLocks(OneShard)
    /\ InitClients(ConnBudget)
    /\ index = [c \in DOMAIN ConnBudget |-> 0]
    /\ recv = [c \in DOMAIN ConnBudget |-> <<>>]
    /\ quit_ch = [c \in DOMAIN ConnBudget |-> FALSE]
    /\ config = <<>> /\ cfg_guards = {}
    /\ FrameUnused /\ BgUnused /\ RdbUnused

NextConn ==
    \/ \E c \in Clients : ReadRequest(c, ConnWires)
    \/ \E c \in Clients : AcquireShared(c)
    \/ \E c \in Clients : CheckExpired(c)
    \/ \E c \in Clients : AcquireExclusive(c)
    \/ \E c \in Clients : Body(c)
    \/ \E c \in Clients : IncDecStore(c)
    \/ \E c \in Clients : Arm(c)
    \/ \E c \in Clients : WriteFrame(c)
    \/ \E c \in Clients : PeerClosed(c)

SpecConn == InitConn /\ [][NextConn]_vars

\* The replies that answer a frame: all but the protocol-error reply.
IsAnswer(r) == r.req # NoFrame

Answers(c) == SelectSeq(replies[c], IsAnswer)

IsFrame(r) == r.t # "ProtocolError"

\* The frames the handler of c has received.
Received(c) == SelectSeq(recv[c], IsFrame)

\* The handler is between requests, or has ended.
AtRest(c) == pc[c] \in {"idle", "closed", "panicked"}

\* C11: on a connection the k-th reply answers the k-th frame received, a
\* frame is received only when all frames before it are answered, and once
\* the handler is at rest every received frame has its one reply.
C11_ReplyOrder ==
    \A c \in Clients :
        /\ Len(Answers(c)) <= Len(Received(c))
        /\ \A k \in 1..Len(Answers(c)) : Answers(c)[k].req = Received(c)[k]
        /\ Len(Received(c)) <= Len(Answers(c)) + 1
        /\ AtRest(c) => Len(Answers(c)) = Len(Received(c))

IsProtocolErr(r) == r.frame = ErrMsg(ProtocolErrText)

\* C12: bytes with an unknown leading byte, an invalid integer literal or a
\* numeric header that is not UTF-8 make Frame::parse report an error; the
\* handler that meets such bytes writes one '-ERR Protocol error' as its
\* last reply, reads and runs nothing after it, and is closed; the step in
\* which it meets them leaves the keyspace as it was.
C12_FatalFraming ==
    /\ [](\A w \in ConnMalformed : Parse(w, 0).res = "err")
    /\ [](\A c \in Clients : \A i \in 1..Len(recv[c]) :
            recv[c][i].t = "ProtocolError" =>
                /\ i = Len(recv[c])
                /\ pc[c] = "closed"
                /\ Len(SelectSeq(replies[c], IsProtocolErr)) = 1
                /\ IsProtocolErr(replies[c][Len(replies[c])])
                /\ Len(Answers(c)) = i - 1)
    /\ [][\A c \in Clients :
            recv'[c] # recv[c] /\ recv'[c][Len(recv'[c])].t = "ProtocolError"
                => dict' = dict /\ index' = index]_vars

\* C12 witness: after a SET that was run, the handler met "$\xFF\r\n" and
\* is closed.
C12_Witness ==
    \E c \in Clients :
        /\ Len(recv[c]) = 2
        /\ recv[c][2] = ProtocolError(<<Ch.dollar, 255, Ch.cr, Ch.lf>>)
        /\ dict[ConnKey] # NoEntry
        /\ pc[c] = "closed"

\* Requests that are complete frames and no command: GET without its key,
\* GET with an argument too many, SET with a flag that is none.
Misshapen ==
    { Request(<<Words.GET>>), Request(<<Words.GET, ConnKey, Words.b>>),
      Request(<<Words.SET, ConnKey, Words.x, Words.zz>>) }

\* The last thing the handler of c received is the frame f, and it has
\* been answered.
JustAnswered(c, f) ==
    /\ recv[c] # <<>> /\ recv[c][Len(recv[c])] = f
    /\ Len(Answers(c)) = Len(Received(c))

\* C13: a frame that fails command parsing is answered with the syntax
\* error and no command is run for it; the step that receives it leaves
\* keyspace and server state as they were; and the handler then waits for
\* the next request (it ends only when the peer has no more to send).
C13_SyntaxErrorNonFatal ==
    /\ [](\A c \in Clients :
            /\ \A i \in 1..Len(replies[c]) :
                 replies[c][i].req \in Misshapen =>
                     /\ replies[c][i].frame = ErrMsg(SyntaxErrText)
                     /\ replies[c][i].cmd.op = "none"
            /\ \A f \in Misshapen :
                 JustAnswered(c, f) =>
                     IF budget[c] > 0 THEN pc[c] = "idle" ELSE pc[c] \in {"idle", "closed"})
    /\ [][\A c \in Clients :
            recv'[c] # recv[c] /\ recv'[c][Len(recv'[c])] \in Misshapen
                => /\ dict' = dict /\ index' = index
                   /\ UNCHANGED bgVars
                   /\ Len(replies'[c]) = Len(replies[c]) + 1
                   /\ pc'[c] = "idle"]_vars

\* C13 witness: SET a 10 was run, then GET a b was refused, and the
\* handler is waiting for the third request.
C13_Witness ==
    \E c \in Clients :
        /\ Len(replies[c]) = 2
        /\ replies[c][1].frame = Ok
        /\ replies[c][2].req = Request(<<Words.GET, ConnKey, Words.b>>)
        /\ dict[ConnKey] = DictValue(String(<<49, 48>>), None)
        /\ pc[c] = "idle" /\ budget[c] = 1

\* Requests whose name is none of the dispatch table's, without and with an
\* argument.
UnknownRequests == { Request(<<Words.FOO>>), Request(<<Words.FOO, Words.x>>) }

\* C14: a request for a command that is not in the dispatch table is
\* answered with the unknown-command error that names it, whatever
\* arguments it carries, and the handler goes on to the next request.
C14_UnknownCommand ==
    \A c \in Clients :
        /\ \A i \in 1..Len(replies[c]) :
             replies[c][i].req \in UnknownRequests =>
                 replies[c][i].frame = UnknownErr(replies[c][i].req.a[1].b)
        /\ \A f \in UnknownRequests :
             JustAnswered(c, f) /\ budget[c] > 0 => pc[c] = "idle"

\* C15: ECHO msg, in any letter case, is answered with msg.
C15_EchoSupported ==
    \A c \in Clients : \A i \in 1..Len(replies[c]) :
        replies[c][i].req = Request(<<Words.eCHO, Words.hi>>) =>
            replies[c][i].frame \in { Bulk(Words.hi), Simple(Words.hi) }

\* C16: a list that RPUSH has just pushed to ends with the values pushed,
\* in argument order; and the replies to RPUSH l x y z on an absent key,
\* LPOP l, RPOP l are 3, x, z.
C16_ListEnds ==
    \A c \in Clients :
        /\ pc[c] = "write" /\ cmd[c].op = "rpush" /\ ~loc[c].mismatch =>
             LET l == dict[cmd[c].key].value.l
                 n == Len(cmd[c].values)
             IN  SubSeq(l, Len(l) - n + 1, Len(l)) = cmd[c].values
        /\ /\ Len(replies[c]) = 3
           /\ replies[c][1].req = Request(<<Words.RPUSH, ListKey, Words.x, Words.y, Words.z>>)
           /\ replies[c][2].req = Request(<<Words.LPOP, ListKey>>)
           /\ replies[c][3].req = Request(<<Words.RPOP, ListKey>>)
           => /\ replies[c][1].frame = Integer(3)
              /\ replies[c][2].frame = Bulk(Words.x)
              /\ replies[c][3].frame = Bulk(Words.z)

\* The keys that hold an entry whose expiry has not passed.
LiveKeys == { k \in DOMAIN dict : dict[k] # NoEntry /\ ~is_expired(dict[k], now) }

\* C17: the reply to DBSIZE is the number of live keys.
C17_DbSize ==
    \A c \in Clients :
        pc[c] = "write" /\ cmd[c].op = "dbsize" =>
            loc[c].resp = Integer(Cardinality(LiveKeys))

SelectZero == Request(<<Words.SELECT, <<48>>>>)

\* SELECT 1 and SELECT -1.
SelectOthers == { Request(<<Words.SELECT, <<49>>>>), Request(<<Words.SELECT, <<45, 49>>>>) }

\* C18: SELECT 0 is accepted; SELECT with another index, a negative one
\* included, is answered with 'ERR invalid db index'; the connection's
\* database index is 0 throughout, and a SELECT changes no key.
C18_SelectOnlyZero ==
    /\ [](\A c \in Clients :
            /\ index[c] = 0
            /\ \A i \in 1..Len(replies[c]) :
                 /\ replies[c][i].req = SelectZero => replies[c][i].frame = Ok
                 /\ replies[c][i].req \in SelectOthers =>
                      replies[c][i].frame = ErrMsg(InvalidDbText))
    /\ [][\A c \in Clients :
            pc[c] = "arm" /\ pc'[c] # "arm" /\ cmd[c].op = "select" =>
                dict' = dict /\ index' = index]_vars

\* A connection that was refused SELECT -1 and SELECT 1 and then granted
\* SELECT 0.
C18_Witness ==
    \E c \in Clients :
        /\ Len(replies[c]) = 3
        /\ replies[c][1].req = Request(<<Words.SELECT, <<45, 49>>>>)
        /\ replies[c][1].frame = ErrMsg(InvalidDbText)
        /\ replies[c][2].req = Request(<<Words.SELECT, <<49>>>>)
        /\ replies[c][2].frame = ErrMsg(InvalidDbText)
        /\ replies[c][3].req = SelectZero
        /\ replies[c][3].frame = Ok
        /\ index[c] = 0

\* The Save arm makes its test for connection c.
SaveTests(c) == pc[c] = "bg_check" /\ cmd[c].op = "save" /\ pc'[c] # "bg_check"

\* SAVE is refused: the error is the reply to write, and neither the dump
\* file nor the keyspace nor the server's persistence state changes.
SaveRefused(c) ==
    /\ pc'[c] = "write"
    /\ loc'[c].resp = ErrMsg(BgSaveRunningText)
    /\ ~loc'[c].err
    /\ UNCHANGED <<rdb_file, dict, rdb_child_pid, aof_child_pid, aof_rewrite_scheduled, child>>

\* Once the reply to SAVE is written the connection reads on.
SaveKeepsOpen ==
    \A c \in Clients :
        pc[c] = "write" /\ cmd[c].op = "save" /\ pc'[c] # "write" => pc'[c] = "idle"

\* C19: SAVE issued while a background-save child is live is answered with
\* 'ERR background save is running', creates or truncates no dump file,
\* changes no server state and leaves the connection open.
C19_SaveWhileChildLive ==
    [][/\ \A c \in Clients :
            SaveTests(c) /\ (\E p \in DOMAIN child : IsRdbChild(p)) => SaveRefused(c)
       /\ SaveKeepsOpen]_vars

\* The same for a SAVE that finds the child's pid recorded in rdb_state.
SaveRefusedOncePidRecorded ==
    [][/\ \A c \in Clients : SaveTests(c) /\ rdb_child_pid # None => SaveRefused(c)
       /\ SaveKeepsOpen]_vars

\* A SAVE was refused and its connection is open.
SaveRefusedReached ==
    \E c \in Clients : \E i \in 1..Len(replies[c]) :
        /\ replies[c][i].cmd.op = "save"
        /\ replies[c][i].frame = ErrMsg(BgSaveRunningText)
        /\ pc[c] = "idle"

\* The requests of the INCR family that the peer sends.
IncDecRequests ==
    { Request(<<Words.INCR, ConnKey>>), Request(<<Words.DECR, ConnKey>>),
      Request(<<Words.INCRBY, ConnKey, <<53>>>>), Request(<<Words.DECRBY, ConnKey, <<51>>>>) }

\* The delta such a request asks for: 1, -1, the increment, minus the
\* decrement.
AskedDelta(f) ==
    LET name == f.a[1].b
    IN  CASE name = Words.INCR -> 1
          [] name = Words.DECR -> -1
          [] name = Words.INCRBY -> FromStr(f.a[3].b, TRUE).n
          [] OTHER -> 0 - FromStr(f.a[3].b, TRUE).n

SetTen == Request(<<Words.SET, ConnKey, <<49, 48>>>>)

SetX == Request(<<Words.SET, ConnKey, Words.x>>)

GetKey == Request(<<Words.GET, ConnKey>>)

\* The frames the connection was sent and the replies it got, in order.
Asked(c) == [i \in 1..Len(replies[c]) |-> replies[c][i].req]

Got(c) == [i \in 1..Len(replies[c]) |-> replies[c][i].frame]

\* C20: INCR, DECR, INCRBY and DECRBY take an absent key as "0"; on a
\* string that is the decimal integer n they store the decimal text of
\* n + delta and reply that integer; on a string that is no integer they
\* reply 'ERR value is not an integer or out of range' and leave the value
\* as it is.  SET k 10, INCRBY k 5, GET k is answered OK, 15, "15".
\* Values stay within the 64-bit range.
C20_IncrFamily ==
    /\ [](\A c \in Clients :
            /\ Asked(c) = <<SetTen, Request(<<Words.INCRBY, ConnKey, <<53>>>>), GetKey>>
                 => Got(c) = <<Ok, Integer(15), Bulk(<<49, 53>>)>>
            /\ \A f \in IncDecRequests :
                 /\ Asked(c) = <<f>> => Got(c) = <<Integer(AskedDelta(f))>>
                 /\ Asked(c) = <<f, GetKey>> =>
                      Got(c) = <<Integer(AskedDelta(f)), Bulk(FmtInt(AskedDelta(f)))>>
                 /\ Asked(c) = <<SetX, f, GetKey>> =>
                      Got(c) = <<Ok, ErrMsg(NotIntText), Bulk(Words.x)>>)
    /\ [][\A c \in Clients :
            loc[c].req \in IncDecRequests =>
              LET key == loc[c].req.a[2].b
                  e == dict[key]
                  old == IF e = NoEntry THEN <<Ch.zero>> ELSE e.value.s
              IN  /\ pc[c] = "body" /\ pc'[c] # "body"
                       /\ (e = NoEntry \/ e.value.kind = "string") =>
                        IF parse_int(old).ok
                        THEN /\ pc'[c] = "store"
                             /\ loc'[c].n = parse_int(old).n
                             /\ dict'[key].value.s = old
                        ELSE /\ pc'[c] = "write"
                             /\ loc'[c].resp = ErrMsg(NotIntText)
                             /\ dict' = dict
                  /\ pc[c] = "store" /\ pc'[c] # "store" =>
                        LET v == loc[c].n + AskedDelta(loc[c].req)
                        IN  /\ pc'[c] = "write"
                            /\ loc'[c].resp = Integer(v)
                            /\ dict'[key].value.s = FmtInt(v)
                            /\ \A k \in DOMAIN dict : k # key => dict'[k] = dict[k]]_vars

\* SET k 10, INCRBY k 5, GET k were answered OK, 15, "15".
C20_Witness ==
    \E c \in Clients :
        /\ Asked(c) = <<SetTen, Request(<<Words.INCRBY, ConnKey, <<53>>>>), GetKey>>
        /\ Got(c) = <<Ok, Integer(15), Bulk(<<49, 53>>)>>

(***************************************************************************)
(* One connection whose peer sends SETs of one key, plain, with NX, with   *)
(* XX and with an expiry, and SETNX, while the clock runs.                 *)
(***************************************************************************)
\* What the peer asks for with each SET: the value, the flags and the
\* time to live in milliseconds.
SetCases ==
    { [val |-> Words.x,
       nx |-> FALSE, xx |-> FALSE, req |-> Request(<<Words.SET, ConnKey, Words.x>>), ms |-> None],
      [val |-> Words.y,
       nx |-> TRUE, xx |-> FALSE, req |-> Request(<<Words.SET, ConnKey, Words.y, <<78, 88>>>>), ms |-> None],
      [val |-> Words.zz,
       nx |-> TRUE, xx |-> FALSE, req |-> Request(<<<<83, 69, 84, 78, 88>>, ConnKey, Words.zz>>), ms |-> None],
      [val |-> Words.z,
       nx |-> FALSE, xx |-> TRUE, req |-> Request(<<Words.SET, ConnKey, Words.z, <<120, 120>>>>), ms |-> None],
      [val |-> Words.b,
       nx |-> FALSE, xx |-> FALSE, req |-> Request(<<Words.SET, ConnKey, Words.b, <<80, 88>>, <<49>>>>), ms |-> Some(1)],
      [val |-> Words.hi,
       nx |-> FALSE, xx |-> FALSE, req |-> Request(<<Words.SET, ConnKey, Words.hi, <<69, 88>>, <<49>>>>), ms |-> Some(1000)] }

SetWires == { Wire(k.req) : k \in SetCases } \cup { Wire(Request(<<Words.GET, ConnKey>>)) }

NextSet ==
    \/ \E c \in Clients : ReadRequest(c, SetWires)
    \/ \E c \in Clients : AcquireShared(c)
    \/ \E c \in Clients : CheckExpired(c)
    \/ \E c \in Clients : AcquireExclusive(c)
    \/ \E c \in Clients : Body(c)
    \/ \E c \in Clients : WriteFrame(c)
    \/ \E c \in Clients : PeerClosed(c)
    \/ Tick

SpecSet == InitConn /\ [][NextSet]_vars

\* C21: a SET with NX stores only when the key is absent, with XX only when
\* it is present; a refused SET replies Null and leaves the keyspace as it
\* is; a SET that stores replies OK and replaces value and expire: the new
\* expire_at is now + ms for PX ms, now + secs * 1000 for EX secs, none
\* without either.  Present and absent are what Dict::entry finds.
C21_SetSemantics ==
    [][\A c \in Clients : \A k \in SetCases :
         loc[c].req = k.req /\ pc[c] = "body" /\ pc'[c] # "body" =>
            LET present == dict[ConnKey] # NoEntry
                refused == (k.nx /\ present) \/ (k.xx /\ ~present)
            IN  /\ pc'[c] = "write"
                /\ IF refused
                   THEN loc'[c].resp = Null /\ dict' = dict
                   ELSE /\ loc'[c].resp = Ok
                        /\ dict'[ConnKey] =
                             DictValue(String(k.val), { now + ms : ms \in k.ms })
                        /\ \A j \in DOMAIN dict : j # ConnKey => dict'[j] = dict[j]]_vars

\* After the clock moved, SET PX 1 stored an expiring value, SET NX was
\* refused, and a plain SET replaced the value and cleared the expire.
C21_Witness ==
    \E c \in Clients :
        /\ now > 0
        /\ Asked(c) = <<Request(<<Words.SET, ConnKey, Words.b, <<80, 88>>, <<49>>>>),
                        Request(<<Words.SET, ConnKey, Words.y, <<78, 88>>>>),
                        Request(<<Words.SET, ConnKey, Words.x>>)>>
        /\ Got(c) = <<Ok, Null, Ok>>
        /\ replies[c][1].changed /\ ~replies[c][2].changed
        /\ dict[ConnKey] = DictValue(String(Words.x), None)

(***************************************************************************)
(* RENAME.  Dict::rename is a DashMap::remove followed by a                *)
(* DashMap::insert; each takes the lock of its key's shard for the length  *)
(* of the call.  The first connection renames a key while the second reads *)
(* the old and the new name.                                               *)
(***************************************************************************)
\* The new name travels in val.
Rename(key, new_key) == [Cmd("rename", key) EXCEPT !.val = new_key]

NoSuchKeyText == "ERR no such key"

\* Dict::rename, self.dict.remove(key).
RenameRemove(c) ==
    /\ pc[c] = "rn_remove"
    /\ CanExclude(locks[shard_of[cmd[c].key]])
    /\ IF dict[cmd[c].key] # NoEntry
       THEN /\ dict' = [dict EXCEPT ![cmd[c].key] = NoEntry]
            /\ loc' = [loc EXCEPT ![c].v = dict[cmd[c].key]]
            /\ pc' = [pc EXCEPT ![c] = "rn_insert"]
       ELSE /\ Reply(c, ErrMsg(NoSuchKeyText))
            /\ UNCHANGED dict
    /\ UNCHANGED <<locks, shard_of, now, cmd, replies, budget, db_mutex>>
    /\ UNCHANGED <<frameVars, bgVars, rdbVars, connVars>>

\* Dict::rename, self.dict.insert(new_key, v.1), and the reply.
RenameInsert(c) ==
    /\ pc[c] = "rn_insert"
    /\ CanExclude(locks[shard_of[cmd[c].val]])
    /\ dict' = [dict EXCEPT ![cmd[c].val] = loc[c].v]
    /\ loc' = [loc EXCEPT ![c].resp = Ok, ![c].changed = TRUE]
    /\ pc' = [pc EXCEPT ![c] = "write"]
    /\ UNCHANGED <<locks, shard_of, now, cmd, replies, budget, db_mutex>>
    /\ UNCHANGED <<frameVars, bgVars, rdbVars, connVars>>

RenameBudget == <<1, 2>>

OldKey == <<Ch.a>>

NewKey == <<Ch.e>>

\* The entry that is renamed: a string with an expiry far ahead.
Moved == DictValue(String(<<49>>), Some(MaxClock + 1))

InitRename ==
    /\ dict \in { [k \in Keys |-> IF k = OldKey THEN Moved ELSE e] :
                    e \in {NoEntry, DictValue(String(<<50>>), None)} }
    /\ now = 0
    /\ InitLocks(ShardMaps)
    /\ InitClients(RenameBudget)
    /\ FrameUnused /\ BgUnused /\ RdbUnused /\ ConnUnused

NextRename ==
    \/ \E c \in {1} : ReadFrame(c, {Rename(OldKey, NewKey)})
    \/ \E c \in {2} : ReadFrame(c, {Get(OldKey), Get(NewKey)})
    \/ \E c \in Clients : RenameRemove(c)
    \/ \E c \in Clients : RenameInsert(c)
    \/ \E c \in Clients : AcquireShared(c)
    \/ \E c \in Clients : CheckExpired(c)
    \/ \E c \in Clients : Body(c)
    \/ \E c \in Clients : WriteFrame(c)

SpecRename == InitRename /\ [][NextRename]_vars

\* The reply to GET of the moved entry.
MovedReply == SerializeObject(Moved.value)

\* C22: rename moves value and expire together and overwrites an entry at
\* the new name, and it is atomic for the other connection: the moved entry
\* is at the old name or at the new one in every state, so a GET of the old
\* name that finds nothing is followed by a GET of the new name that finds
\* the moved value.
C22_RenameAtomic ==
    /\ (dict[OldKey] = Moved) # (dict[NewKey] = Moved)
    /\ Len(replies[1]) = 1 => dict[OldKey] = NoEntry /\ dict[NewKey] = Moved
    /\ /\ Len(replies[2]) = 2
       /\ replies[2][1].cmd = Get(OldKey) /\ replies[2][1].frame = Null
       /\ replies[2][2].cmd = Get(NewKey)
       => replies[2][2].frame = MovedReply

\* What holds of rename once it has returned: the entry, value and expire,
\* is at the new name and the old name is gone.
RenameMovesEntry ==
    Len(replies[1]) = 1 =>
        replies[1][1].frame = Ok /\ dict[OldKey] = NoEntry /\ dict[NewKey] = Moved

\* The other connection got Null for the old name and then did not find the
\* moved value under the new name.
RenameSeenHalfDone ==
    /\ Len(replies[2]) = 2
    /\ replies[2][1].cmd = Get(OldKey) /\ replies[2][1].frame = Null
    /\ replies[2][2].cmd = Get(NewKey) /\ replies[2][2].frame # MovedReply

(***************************************************************************)
(* Two connections that each change a key once, with SET, INCR or APPEND,  *)
(* and a third that reads it.                                              *)
(***************************************************************************)
RywBudget == <<1, 1, 1>>

Writers == {1, 2}

Reader == Len(RywBudget)

RywKey == <<Ch.a>>

RywStart == <<49>>

RywMenu == { Set(RywKey, <<53>>, FALSE, FALSE, None), Incr(RywKey), AppendCmd(RywKey, <<55>>) }

InitRyw ==
    /\ dict = [k \in Keys |-> IF k = RywKey THEN DictValue(String(RywStart), None) ELSE NoEntry]
    /\ now = 0
    /\ InitLocks(OneShard)
    /\ InitClients(RywBudget)
    /\ FrameUnused /\ BgUnused /\ RdbUnused /\ ConnUnused

NextRyw ==
    \/ \E c \in Writers : ReadFrame(c, RywMenu)
    \/ \E c \in {Reader} : ReadFrame(c, {Get(RywKey)})
    \/ \E c \in Clients : AcquireShared(c)
    \/ \E c \in Clients : CheckExpired(c)
    \/ \E c \in Clients : AcquireExclusive(c)
    \/ \E c \in Clients : Body(c)
    \/ \E c \in Clients : IncDecStore(c)
    \/ \E c \in Clients : WriteFrame(c)

SpecRyw == InitRyw /\ [][NextRyw]_vars

\* The string that the mutation m makes of the string v.
Mutated(m, v) ==
    CASE m.op = "set" -> m.val
      [] m.op = "append" -> v \o m.val
      [] OTHER -> FmtInt(FromStr(v, TRUE).n + m.incr)

\* The values of the key that include the mutation of connection c: that
\* mutation alone, or with the other writer's before it or after it.
Including(c) ==
    { Mutated(cmd[c], RywStart) } \cup
    UNION { { Mutated(cmd[c], Mutated(m, RywStart)), Mutated(m, Mutated(cmd[c], RywStart)) } :
              m \in { cmd[d] : d \in { w \in Writers \ {c} : cmd[w].op # "none" } } }

\* The mutation of connection c is answered: its reply is written or is the
\* next thing its task does.
Answered(c) == pc[c] = "write" \/ Len(replies[c]) = 1

\* C23: a mutation is in the keyspace before its reply is written, and a
\* read of the key that is made once the reply is written observes that
\* mutation or a later one.
C23_ReadYourWrites ==
    /\ [](\A c \in Writers : Answered(c) => dict[RywKey].value.s \in Including(c))
    /\ [][\A c \in Writers :
            pc[Reader] = "body" /\ pc'[Reader] = "write" /\ Len(replies[c]) = 1 =>
                \E v \in Including(c) : loc'[Reader].resp = Bulk(v)]_vars

\* INCR was answered 2 before the other connections sent anything, and the
\* read that followed found "2".
C23_Witness ==
    /\ Len(replies[1]) = 1 /\ replies[1][1].cmd = Incr(RywKey)
    /\ replies[1][1].frame = Integer(2)
    /\ pc[2] = "idle" /\ budget[2] = 1
    /\ Len(replies[Reader]) = 1 /\ replies[Reader][1].frame = Bulk(<<50>>)

(***************************************************************************)
(* Shutdown.  QUIT sends () on the server's broadcast channel, of which    *)
(* every connection holds a Receiver; handle_client races the read of the  *)
(* next frame with quit_ch.recv().                                         *)
(***************************************************************************)
\* handle_command, Command::Quit: self.server.quit_ch.send(()), and then
\* the reply to write.
QuitArm(c) ==
    /\ pc[c] = "quit"
    /\ quit_ch' = [d \in DOMAIN quit_ch |-> TRUE]
    /\ Reply(c, Ok)
    /\ UNCHANGED <<dict, locks, shard_of, now, cmd, replies, budget, db_mutex, index, recv, config, cfg_guards>>
    /\ UNCHANGED <<frameVars, bgVars, rdbVars>>

\* handle_client: the select! takes the branch of quit_ch.recv().
QuitRecv(c) ==
    /\ pc[c] = "idle"
    /\ quit_ch[c]
    /\ pc' = [pc EXCEPT ![c] = "closed"]
    /\ quit_ch' = [quit_ch EXCEPT ![c] = FALSE]
    /\ UNCHANGED <<dict, locks, shard_of, now, cmd, loc, replies, budget, db_mutex, index, recv, config, cfg_guards>>
    /\ UNCHANGED <<frameVars, bgVars, rdbVars>>

\* The first peer sends two requests, the second one.
QuitBudget == <<2, 1>>

QuitKey == <<Ch.a>>

QuitRequest == Request(<<<<81, 85, 73, 84>>>>)

QuitWires ==
    { Wire(QuitRequest), Wire(Request(<<Words.GET, QuitKey>>)),
      Wire(Request(<<Words.SET, QuitKey, Words.x>>)) }

\* The key is there and expires when the clock has passed 1.
InitQuit ==
    /\ dict = [k \in Keys |-> IF k = QuitKey THEN DictValue(String(<<49>>), Some(1)) ELSE NoEntry]
    /\ now = 0
    /\ InitLocks(OneShard)
    /\ InitClients(QuitBudget)
    /\ index = [c \in DOMAIN QuitBudget |-> 0]
    /\ recv = [c \in DOMAIN QuitBudget |-> <<>>]
    /\ quit_ch = [c \in DOMAIN QuitBudget |-> FALSE]
    /\ config = <<>> /\ cfg_guards = {}
    /\ FrameUnused /\ BgUnused /\ RdbUnused

\* What the task of connection c can do.
TaskStep(c) ==
    \/ ReadRequest(c, QuitWires)
    \/ AcquireShared(c)
    \/ CheckExpired(c)
    \/ AcquireExclusive(c)
    \/ Body(c)
    \/ QuitArm(c)
    \/ WriteFrame(c)
    \/ QuitRecv(c)
    \/ PeerClosed(c)

NextQuit ==
    \/ \E c \in Clients : ReadRequest(c, QuitWires)
    \/ \E c \in Clients : AcquireShared(c)
    \/ \E c \in Clients : CheckExpired(c)
    \/ \E c \in Clients : AcquireExclusive(c)
    \/ \E c \in Clients : Body(c)
    \/ \E c \in Clients : QuitArm(c)
    \/ \E c \in Clients : WriteFrame(c)
    \/ \E c \in Clients : QuitRecv(c)
    \/ \E c \in Clients : PeerClosed(c)
    \/ Tick

SpecQuit == InitQuit /\ [][NextQuit]_vars

\* The executor runs every task that can take a step.
FairQuit == SpecQuit /\ \A c \in DOMAIN QuitBudget : WF_vars(TaskStep(c))

\* The shutdown signal has been sent.
SignalSent == \E c \in DOMAIN QuitBudget : quit_ch[c] \/ \E i \in 1..Len(replies[c]) : replies[c][i].cmd.op = "quit"

\* A task that waits for the lock it holds itself (check_expired on a key
\* whose expiry has passed), or for a lock such a task holds.
Blocked(c) ==
    \/ pc[c] = "ce_remove"
    \/ pc[c] = "entry" /\ \E d \in DOMAIN QuitBudget : pc[d] = "ce_remove"

\* A task leaves its loop by the shutdown signal or by end-of-stream only
\* when it waits for a frame, and does nothing afterwards.
LeavesBetweenRequests ==
    [][\A c \in DOMAIN QuitBudget :
         /\ pc[c] # "closed" /\ pc'[c] = "closed" => pc[c] = "idle"
         /\ pc[c] = "closed" =>
              pc'[c] = "closed" /\ replies'[c] = replies[c] /\ recv'[c] = recv[c]]_vars

\* C24: once the shutdown signal is sent every connection task eventually
\* leaves its loop, and only between requests; a task whose peer has closed
\* the socket terminates and applies no further command.
C24_Termination ==
    /\ SignalSent ~> (\A c \in DOMAIN QuitBudget : pc[c] = "closed")
    /\ \A c \in DOMAIN QuitBudget : (pc[c] = "idle" /\ budget[c] = 0) ~> pc[c] = "closed"
    /\ LeavesBetweenRequests

\* The same, but for the tasks that wait for a lock that is never given
\* back.
TerminationUnlessBlocked ==
    /\ SignalSent ~> (\A c \in DOMAIN QuitBudget : pc[c] = "closed" \/ Blocked(c))
    /\ \A c \in DOMAIN QuitBudget : (pc[c] = "idle" /\ budget[c] = 0) ~> pc[c] = "closed"
    /\ LeavesBetweenRequests

\* C25: the OK that answers QUIT is written before the shutdown signal is
\* sent, and the connection that sent QUIT executes no request after it.
C25_QuitOrder ==
    /\ (\E c \in Clients : quit_ch[c]) =>
          \E d \in Clients : \E i \in 1..Len(replies[d]) :
              replies[d][i].cmd.op = "quit" /\ replies[d][i].frame = Ok
    /\ \A c \in Clients : \A i \in 1..Len(replies[c]) :
          replies[c][i].cmd.op = "quit" =>
              i = Len(replies[c]) /\ pc[c] \in {"idle", "closed"}

\* A task left its loop on the signal of a QUIT whose OK was not yet
\* written.
LeftBeforeOk ==
    \E c \in Clients : \E d \in Clients :
        /\ pc[c] = "write" /\ cmd[c].op = "quit"
        /\ d # c /\ pc[d] = "closed" /\ budget[d] > 0

\* The connection that sent QUIT got its OK and then a reply to a later
\* request.
ServedAfterQuit ==
    \E c \in Clients :
        /\ Len(replies[c]) = 2
        /\ replies[c][1].cmd.op = "quit" /\ replies[c][1].frame = Ok

(***************************************************************************)
(* The append-only file.  Each command that changed the keyspace is        *)
(* appended as rewrite() serializes it; loading replays the file on an     *)
(* empty keyspace.                                                         *)
(***************************************************************************)
\* shared::extend_array: the header of an array of n elements.
extend_array(n) == <<Ch.star>> \o FmtNat(n) \o CRLF

\* shared::extend_bulk_string
extend_bulk_string(b) == <<Ch.dollar>> \o FmtNat(Len(b)) \o CRLF \o b \o CRLF

\* The words rewrite() writes.
AofWords ==
    [SET |-> <<83, 69, 84>>, INCR |-> <<73, 78, 67, 82>>, DECR |-> <<68, 69, 67, 82>>,
     INCRBY |-> <<73, 78, 67, 82, 66, 89>>, DECRBY |-> <<68, 69, 67, 82, 66, 89>>,
     PX |-> <<80, 88>>, SETNX |-> <<83, 69, 84, 78, 88>>,
     APPEND |-> <<65, 80, 80, 69, 78, 68>>, HSET |-> <<72, 83, 69, 84>>]

\* Set::rewrite: SET key val, and PX with the time to live when there is one.
SetRewrite(m) ==
    extend_array(3 + IF m.expire # None THEN 2 ELSE 0)
        \o extend_bulk_string(AofWords.SET) \o extend_bulk_string(m.key)
        \o extend_bulk_string(m.val)
        \o IF m.expire # None
           THEN extend_bulk_string(AofWords.PX)
                    \o extend_bulk_string(FmtNat(CHOOSE ms \in m.expire : TRUE))
           ELSE <<>>

\* rewrite() of the command m.
Rewrite(m) ==
    CASE m.op = "set" -> SetRewrite(m)
      [] m.op = "setnx" ->
            extend_array(3) \o extend_bulk_string(AofWords.SETNX)
                \o extend_bulk_string(m.key) \o extend_bulk_string(m.val)
      [] m.op = "incr" ->
            extend_array(2) \o extend_bulk_string(AofWords.INCR) \o extend_bulk_string(m.key)
      [] m.op = "decr" ->
            extend_array(2) \o extend_bulk_string(AofWords.DECR) \o extend_bulk_string(m.key)
      [] m.op = "incrby" ->
            extend_array(3) \o extend_bulk_string(AofWords.INCRBY)
                \o extend_bulk_string(m.key) \o extend_bulk_string(FmtInt(m.incr))
      [] m.op = "decrby" ->
            extend_array(3) \o extend_bulk_string(AofWords.DECRBY)
                \o extend_bulk_string(m.key) \o extend_bulk_string(FmtInt(0 - m.incr))
      [] m.op = "append" ->
            extend_array(3) \o extend_bulk_string(AofWords.APPEND)
                \o extend_bulk_string(m.key) \o extend_bulk_string(m.val)
      [] m.op = "hset" ->
            extend_array(4) \o extend_bulk_string(AofWords.HSET)
                \o extend_bulk_string(m.key) \o extend_bulk_string(m.field)
                \o extend_bulk_string(m.val)

\* The entry that the command m leaves where it found e, at the time t.
Applied(e, m, t) ==
    CASE m.op = "hset" -> HSetBody(e, m, t).e
      [] m.op \in IncDecOps ->
            LET b == IncDecBody(e)
            IN  IF b.next = "store" THEN [b.e EXCEPT !.value.s = FmtInt(b.n + m.incr)]
                ELSE b.e
      [] OTHER -> CommandBody(e, FALSE, m, t).e

\* Loading: the frames of the file are executed in order, at the time t.
RECURSIVE Replay(_, _, _)
Replay(frames, d, t) ==
    IF frames = <<>> THEN d
    ELSE LET m == CommandFrom(Head(frames)).cmd
         IN  Replay(Tail(frames), [d EXCEPT ![m.key] = Applied(d[m.key], m, t)], t)

AofBudget == <<3>>

AofKey == <<Ch.a>>

AofMenu ==
    { Set(AofKey, <<49>>, FALSE, FALSE, None), Set(AofKey, <<50>>, FALSE, FALSE, Some(1)),
      SetNx(AofKey, <<51>>), Incr(AofKey), Decr(AofKey), IncrBy(AofKey, 2),
      DecrBy(AofKey, 2), AppendCmd(AofKey, <<52>>), HSet(AofKey, KvField, <<53>>) }

InitAof ==
    /\ dict = [k \in Keys |-> NoEntry]
    /\ now = 0
    /\ InitLocks(OneShard)
    /\ InitClients(AofBudget)
    /\ FrameUnused /\ BgUnused /\ RdbUnused /\ ConnUnused

NextAof ==
    \/ \E c \in Clients : ReadFrame(c, AofMenu)
    \/ \E c \in Clients : AcquireShared(c)
    \/ \E c \in Clients : CheckExpired(c)
    \/ \E c \in Clients : AcquireExclusive(c)
    \/ \E c \in Clients : Body(c)
    \/ \E c \in Clients : IncDecStore(c)
    \/ \E c \in Clients : AcquireDb(c)
    \/ \E c \in Clients : HashBody(c)
    \/ \E c \in Clients : WriteFrame(c)
    \/ Tick

SpecAof == InitAof /\ [][NextAof]_vars

\* The commands that were applied with success: answered OK or an integer.
WasApplied(r) == r.frame = Ok \/ r.frame.t = "Integer"

\* The file: what rewrite() made of the applied commands, in order.
AofFile == Concat([i \in 1..Len(SelectSeq(replies[1], WasApplied)) |->
                     Rewrite(SelectSeq(replies[1], WasApplied)[i].cmd)])

\* The keyspace d as clients see it at the time t.
LiveAt(d, t) == [k \in DOMAIN d |-> IF d[k] # NoEntry /\ is_expired(d[k], t) THEN NoEntry ELSE d[k]]

EmptyKeyspace == [k \in Keys |-> NoEntry]

\* What rewrite() emits is one array whose header counts the bulk strings
\* that follow it.
WellFormed(b) ==
    LET r == Parse(b, 0)
    IN  /\ r.res = "frame" /\ r.pos = Len(b)
        /\ r.frame.t = "Array"
        /\ \A i \in 1..Len(r.frame.a) : r.frame.a[i].t = "Bulk"

RewriteWellFormed ==
    \A i \in 1..Len(replies[1]) :
        WasApplied(replies[1][i]) => WellFormed(Rewrite(replies[1][i].cmd))

\* Some applied command carried a time to live.
WithExpiry == \E i \in 1..Len(replies[1]) : WasApplied(replies[1][i]) /\ replies[1][i].cmd.expire # None

\* C26: what rewrite() emits for an applied command is an array whose
\* declared length is the number of bulk strings that follow, and replaying
\* the file on an empty keyspace gives the keyspace of the execution, with
\* the same values and the same expire_at.
C26_AofReplay ==
    pc[1] = "idle" =>
        /\ RewriteWellFormed
        /\ LiveAt(Replay(ParseAll(AofFile, 0), EmptyKeyspace, now), now) = LiveAt(dict, now)

\* The same for executions without a time to live.
ReplayWithoutExpiry ==
    pc[1] = "idle" /\ ~WithExpiry =>
        /\ RewriteWellFormed
        /\ Replay(ParseAll(AofFile, 0), EmptyKeyspace, now) = dict

(***************************************************************************)
(* APPEND and the largest string.                                          *)
(***************************************************************************)
AppendBudget == <<3>>

AppendSmall == <<120, 120, 120>>

AppendLarge == <<120, 120, 120, 120, 120>>

AppendRequests ==
    { Request(<<AofWords.APPEND, ConnKey, AppendSmall>>),
      Request(<<AofWords.APPEND, ConnKey, AppendLarge>>),
      Request(<<Words.GET, ConnKey>>) }

AppendWires == { Wire(r) : r \in AppendRequests }

InitAppend ==
    /\ dict = [k \in Keys |-> NoEntry]
    /\ now = 0
    /\ InitLocks(OneShard)
    /\ InitClients(AppendBudget)
    /\ index = [c \in DOMAIN AppendBudget |-> 0]
    /\ recv = [c \in DOMAIN AppendBudget |-> <<>>]
    /\ quit_ch = [c \in DOMAIN AppendBudget |-> FALSE]
    /\ config = <<>> /\ cfg_guards = {}
    /\ FrameUnused /\ BgUnused /\ RdbUnused

NextAppend ==
    \/ \E c \in Clients : ReadRequest(c, AppendWires)
    \/ \E c \in Clients : AcquireShared(c)
    \/ \E c \in Clients : CheckExpired(c)
    \/ \E c \in Clients : AcquireExclusive(c)
    \/ \E c \in Clients : Body(c)
    \/ \E c \in Clients : WriteFrame(c)
    \/ \E c \in Clients : PeerClosed(c)

SpecAppend == InitAppend /\ [][NextAppend]_vars

\* C27: the string stored at a key never grows beyond the cap, whatever
\* APPEND commands were applied; an APPEND whose result would exceed the cap
\* is rejected and leaves the stored string unchanged.
C27_AppendCap ==
    dict[ConnKey] # NoEntry => Len(dict[ConnKey].value.s) <= AppendMax

\* An APPEND whose own value is longer than the cap is answered with an
\* error by Append::from and never reaches the keyspace.
AppendLargeRejected ==
    /\ \A c \in Clients : \A i \in 1..Len(replies[c]) :
         replies[c][i].req = Request(<<AofWords.APPEND, ConnKey, AppendLarge>>) =>
            replies[c][i].frame.t = "Error" /\ ~replies[c][i].changed
    /\ [][\A c \in Clients :
            pc[c] = "idle"
                /\ Len(recv'[c]) > Len(recv[c])
                /\ recv'[c][Len(recv'[c])] = Request(<<AofWords.APPEND, ConnKey, AppendLarge>>) =>
            pc'[c] = "idle" /\ Len(replies'[c]) > Len(replies[c]) /\ dict' = dict]_vars

\* An APPEND with a value longer than the cap was answered.
AppendLargeSeen ==
    \E c \in Clients : \E i \in 1..Len(replies[c]) :
        replies[c][i].req = Request(<<AofWords.APPEND, ConnKey, AppendLarge>>)

\* Two APPENDs, each within the cap, were both applied and the string is
\* longer than the cap.
AppendGrewPastCap ==
    \E c \in Clients :
        /\ Asked(c) = <<Request(<<AofWords.APPEND, ConnKey, AppendSmall>>),
                        Request(<<AofWords.APPEND, ConnKey, AppendSmall>>)>>
        /\ Got(c) = <<Integer(3), Integer(6)>>
        /\ Len(dict[ConnKey].value.s) > AppendMax

(***************************************************************************)
(* CONFIG GET and CONFIG SET.                                              *)
(***************************************************************************)
ConfigGet(key) == Cmd("config_get", key)

ConfigSet(key, value) == [Cmd("config_set", key) EXCEPT !.val = value]

\* The names of the settings, as the arms of handle_command spell them.
CfgKeys ==
    [save |-> <<115, 97, 118, 101>>,
     dbfilename |-> <<100, 98, 102, 105, 108, 101, 110, 97, 109, 101>>,
     port |-> <<112, 111, 114, 116>>,
     databases |-> <<100, 97, 116, 97, 98, 97, 115, 101, 115>>,
     hz |-> <<104, 122>>,
     appendonly |-> <<97, 112, 112, 101, 110, 100, 111, 110, 108, 121>>,
     appendfsync |-> <<97, 112, 112, 101, 110, 100, 102, 115, 121, 110, 99>>,
     dir |-> <<100, 105, 114>>,
     loglevel |-> <<108, 111, 103, 108, 101, 118, 101, 108>>,
     bind |-> <<98, 105, 110, 100>>]

\* The words of the enumerated settings.
CfgWords ==
    [on |-> <<111, 110>>, off |-> <<111, 102, 102>>,
     everysec |-> <<101, 118, 101, 114, 121, 115, 101, 99>>,
     always |-> <<97, 108, 119, 97, 121, 115>>, no |-> <<110, 111>>,
     quiet |-> <<113, 117, 105, 101, 116>>, normal |-> <<110, 111, 114, 109, 97, 108>>,
     verbose |-> <<118, 101, 114, 98, 111, 115, 101>>, debug |-> <<100, 101, 98, 117, 103>>]

\* Display of AofOption, AofFsync and Verbosity: the word of the variant.
EnumDisplay(x) ==
    CASE x = "On" -> CfgWords.on [] x = "Off" -> CfgWords.off
      [] x = "Everysec" -> CfgWords.everysec [] x = "Always" -> CfgWords.always
      [] x = "No" -> CfgWords.no
      [] x = "Quiet" -> CfgWords.quiet [] x = "Normal" -> CfgWords.normal
      [] x = "Verbose" -> CfgWords.verbose [] x = "Debug" -> CfgWords.debug

\* The directories that exist, for std::env::set_current_dir.
Dirs == { <<47>>, <<47, 116>> }

\* The configuration a server starts with.
Config0 ==
    [port |-> 6379, hz |-> 10,
     rdb_filename |-> <<100, 117, 109, 112, 46, 114, 100, 98>>, db_num |-> 16, aof_state |-> "Off", aof_fsync |-> "Everysec",
     save_params |-> <<>>, verbosity |-> "Normal",
     bindaddr |-> <<48, 46, 48, 46, 48, 46, 48>>, cwd |-> <<47>>]

NoSuchConfig == ErrMsg("ERR no such configuration")

\* The keys whose arm of Command::ConfigGet reads config.read().await inside
\* the argument of write_frame: the read guard is a temporary of that
\* statement and lives until the write has returned.
GuardedGets ==
    { CfgKeys.dbfilename, CfgKeys.port, CfgKeys.databases, CfgKeys.hz, CfgKeys.appendonly,
      CfgKeys.appendfsync, CfgKeys.loglevel, CfgKeys.bind }

\* handle_command, Command::ConfigGet: the frame written for the key k.
ConfigGetBody(cfg, k) ==
    LET value ==
            CASE k = CfgKeys.dbfilename -> cfg.rdb_filename
              [] k = CfgKeys.port -> FmtNat(cfg.port)
              [] k = CfgKeys.databases -> FmtNat(cfg.db_num)
              [] k = CfgKeys.hz -> FmtNat(cfg.hz)
              [] k = CfgKeys.appendonly -> EnumDisplay(cfg.aof_state)
              [] k = CfgKeys.dir -> cfg.cwd
              [] k = CfgKeys.appendfsync -> EnumDisplay(cfg.aof_fsync)
              [] k = CfgKeys.save -> Concat(cfg.save_params)
              [] k = CfgKeys.loglevel -> EnumDisplay(cfg.verbosity)
              [] k = CfgKeys.bind -> cfg.bindaddr
              [] OTHER -> <<>>
    IN  IF k \in { CfgKeys[n] : n \in DOMAIN CfgKeys }
        THEN Array(<<Bulk(k), Bulk(value)>>)
        ELSE NoSuchConfig

\* handle_command, Command::ConfigGet.
ConfigGetArm(c) ==
    /\ pc[c] = "cfg_get"
    /\ Reply(c, ConfigGetBody(config, cmd[c].key))
    /\ cfg_guards' = IF cmd[c].key \in GuardedGets THEN cfg_guards \cup {c} ELSE cfg_guards
    /\ UNCHANGED <<dict, locks, shard_of, now, cmd, replies, budget, db_mutex>>
    /\ UNCHANGED <<frameVars, bgVars, rdbVars, index, recv, quit_ch, config>>

CfgOk(cfg) == [res |-> "ok", msg |-> "", cfg |-> cfg]

CfgErr(cfg, msg) == [res |-> "err", msg |-> msg, cfg |-> cfg]

CfgPanic(cfg) == [res |-> "panic", msg |-> "", cfg |-> cfg]

\* Largest u16 and (scaled) largest usize that parse::<u16>() and
\* parse::<usize>() accept.
MaxU16 == 65535

\* The word v as a variant of the enumeration words, or "" when it is none.
EnumOf(v, words) ==
    IF \E x \in words : EnumDisplay(x) = v THEN CHOOSE x \in words : EnumDisplay(x) = v ELSE ""

\* handle_command, Command::ConfigSet: what the arm of the key k does with
\* the value v.  std::str::from_utf8(..).unwrap() panics on bytes that are
\* not UTF-8; the closure of the save arm splits a word that holds no
\* whitespace again and unwraps the second piece, which is not there.
ConfigSetBody(cfg, k, v) ==
    LET utf8 == Utf8ValidFrom(v, 1)
        n == FromStr(v, FALSE)
    IN  CASE k = CfgKeys.dbfilename ->
                IF utf8 THEN CfgOk([cfg EXCEPT !.rdb_filename = v])
                ELSE CfgErr(cfg, "ERR invalid dbfilename")
          [] k = CfgKeys.port ->
                IF ~utf8 THEN CfgPanic(cfg)
                ELSE IF n.ok /\ n.n <= MaxU16 THEN CfgOk([cfg EXCEPT !.port = n.n])
                ELSE CfgErr(cfg, "ERR invalid port")
          [] k = CfgKeys.databases ->
                IF ~utf8 THEN CfgPanic(cfg)
                ELSE IF n.ok THEN CfgOk([cfg EXCEPT !.db_num = n.n])
                ELSE CfgErr(cfg, "ERR invalid db_num")
          [] k = CfgKeys.hz ->
                IF ~utf8 THEN CfgPanic(cfg)
                ELSE IF n.ok THEN CfgOk([cfg EXCEPT !.hz = n.n])
                ELSE CfgErr(cfg, "ERR invalid hz")
          [] k = CfgKeys.appendonly ->
                IF ~utf8 THEN CfgPanic(cfg)
                ELSE IF EnumOf(v, {"On", "Off"}) # ""
                THEN CfgOk([cfg EXCEPT !.aof_state = EnumOf(v, {"On", "Off"})])
                ELSE CfgErr(cfg, "ERR invalid appendonly")
          [] k = CfgKeys.appendfsync ->
                IF ~utf8 THEN CfgPanic(cfg)
                ELSE IF EnumOf(v, {"Everysec", "Always", "No"}) # ""
                THEN CfgOk([cfg EXCEPT !.aof_fsync = EnumOf(v, {"Everysec", "Always", "No"})])
                ELSE CfgErr(cfg, "ERR invalid appendfsync")
          [] k = CfgKeys.save ->
                IF ~utf8 THEN CfgPanic(cfg)
                ELSE IF \A i \in 1..Len(v) : v[i] \in {32, 9, 10, 13}
                THEN CfgOk([cfg EXCEPT !.save_params = <<>>])
                ELSE CfgPanic(cfg)
          [] k = CfgKeys.dir ->
                IF ~utf8 THEN CfgPanic(cfg)
                ELSE IF v \in Dirs THEN CfgOk([cfg EXCEPT !.cwd = v])
                ELSE CfgErr(cfg, "ERR invalid dir")
          [] k = CfgKeys.loglevel ->
                IF ~utf8 THEN CfgPanic(cfg)
                ELSE IF EnumOf(v, {"Quiet", "Normal", "Verbose", "Debug"}) # ""
                THEN CfgOk([cfg EXCEPT !.verbosity = EnumOf(v, {"Quiet", "Normal", "Verbose", "Debug"})])
                ELSE CfgErr(cfg, "ERR invalid loglevel")
          [] OTHER -> CfgErr(cfg, "ERR no such configuration")

\* handle_command, Command::ConfigSet.  self.config.write().await waits for
\* the read guards that are held; the write guard is dropped at the end of
\* the assignment, before write_frame.
ConfigSetArm(c) ==
    /\ pc[c] = "cfg_set"
    /\ \E o \in {ConfigSetBody(config, cmd[c].key, cmd[c].val)} :
        /\ (o.res = "ok" /\ cmd[c].key # CfgKeys.dir) => cfg_guards = {}
        /\ config' = o.cfg
        /\ IF o.res = "panic"
           THEN pc' = [pc EXCEPT ![c] = "panicked"] /\ UNCHANGED loc
           ELSE Reply(c, IF o.res = "ok" THEN Ok ELSE ErrMsg(o.msg))
    /\ UNCHANGED <<dict, locks, shard_of, now, cmd, replies, budget, db_mutex>>
    /\ UNCHANGED <<frameVars, bgVars, rdbVars, index, recv, quit_ch, cfg_guards>>

CfgBudget == <<2, 1>>

\* For each of the ten keys a value that is valid for it.
ConfigCases ==
    { ConfigSet(CfgKeys.dbfilename, <<100, 46, 114, 100, 98>>),
      ConfigSet(CfgKeys.port, <<56, 48>>),
      ConfigSet(CfgKeys.databases, <<50>>),
      ConfigSet(CfgKeys.hz, <<53>>),
      ConfigSet(CfgKeys.appendonly, CfgWords.on),
      ConfigSet(CfgKeys.appendfsync, CfgWords.always),
      ConfigSet(CfgKeys.save, <<57, 32, 49>>),
      ConfigSet(CfgKeys.dir, <<47, 116>>),
      ConfigSet(CfgKeys.loglevel, CfgWords.debug),
      ConfigSet(CfgKeys.bind, <<58, 58>>) }

CfgMenu ==
    ConfigCases
        \cup { ConfigGet(CfgKeys[n]) : n \in DOMAIN CfgKeys }
        \cup { ConfigSet(CfgKeys.port, <<120>>), ConfigSet(CfgKeys.appendonly, <<120>>),
               ConfigSet(CfgKeys.dbfilename, <<255>>), ConfigSet(CfgKeys.hz, <<255>>),
               ConfigSet(CfgKeys.save, <<>>), ConfigGet(<<120>>),
               Set(ConnKey, Words.x, TRUE, FALSE, None) }

InitConfig ==
    /\ dict = [k \in Keys |-> NoEntry]
    /\ now = 0
    /\ InitLocks(OneShard)
    /\ InitClients(CfgBudget)
    /\ index = <<>> /\ recv = <<>> /\ quit_ch = <<>>
    /\ config = Config0
    /\ cfg_guards = {}
    /\ FrameUnused /\ BgUnused /\ RdbUnused

NextConfig ==
    \/ \E c \in Clients : ReadFrame(c, CfgMenu)
    \/ \E c \in Clients : ConfigGetArm(c)
    \/ \E c \in Clients : ConfigSetArm(c)
    \/ \E c \in Clients : AcquireShared(c)
    \/ \E c \in Clients : CheckExpired(c)
    \/ \E c \in Clients : AcquireExclusive(c)
    \/ \E c \in Clients : Body(c)
    \/ \E c \in Clients : WriteFrame(c)

SpecConfig == InitConfig /\ [][NextConfig]_vars

\* The step in which connection c handles the CONFIG SET m.
SetsConfig(c, m) == pc[c] = "cfg_set" /\ cmd[c] = m /\ pc'[c] # "cfg_set"

\* C28: each of the ten keys is accepted by CONFIG GET and by CONFIG SET:
\* CONFIG SET k v with a valid v replies OK without aborting the handler,
\* and a CONFIG GET k that follows returns the pair [k, v]; CONFIG GET of
\* each of the ten keys returns a pair.
C28_ConfigKeys ==
    [][\A c \in Clients :
         /\ \A m \in ConfigCases :
              SetsConfig(c, m) =>
                 /\ pc'[c] = "write" /\ loc'[c].resp = Ok
                 /\ ConfigGetBody(config', m.key) = Array(<<Bulk(m.key), Bulk(m.val)>>)
         /\ \A n \in DOMAIN CfgKeys :
              pc[c] = "cfg_get" /\ cmd[c].key = CfgKeys[n] /\ pc'[c] = "write" =>
                 loc'[c].resp.t = "Array"]_vars

\* The same for the eight keys other than save and bind.
ConfigEightKeys ==
    [][\A c \in Clients :
         /\ \A m \in ConfigCases :
              m.key \notin {CfgKeys.save, CfgKeys.bind} /\ SetsConfig(c, m) =>
                 /\ pc'[c] = "write" /\ loc'[c].resp = Ok
                 /\ ConfigGetBody(config', m.key) = Array(<<Bulk(m.key), Bulk(m.val)>>)
         /\ \A n \in DOMAIN CfgKeys :
              pc[c] = "cfg_get" /\ cmd[c].key = CfgKeys[n] /\ pc'[c] = "write" =>
                 loc'[c].resp.t = "Array"]_vars

\* CONFIG SET bind was answered with an error.
ConfigBindRefused ==
    \E c \in Clients : \E i \in 1..Len(replies[c]) :
        /\ replies[c][i].cmd = ConfigSet(CfgKeys.bind, <<58, 58>>)
        /\ replies[c][i].frame = NoSuchConfig

\* CONFIG SET save "9 1" ended the task of its connection.
ConfigSavePanicked ==
    \E c \in Clients : pc[c] = "panicked" /\ cmd[c] = ConfigSet(CfgKeys.save, <<57, 32, 49>>)

\* CONFIG SET port 80 and then CONFIG GET port were answered OK and [port, 80].
ConfigPortRoundTrip ==
    \E c \in Clients :
        /\ Len(replies[c]) = 2
        /\ replies[c][1].cmd = ConfigSet(CfgKeys.port, <<56, 48>>) /\ replies[c][1].frame = Ok
        /\ replies[c][2].cmd = ConfigGet(CfgKeys.port)
        /\ replies[c][2].frame = Array(<<Bulk(CfgKeys.port), Bulk(<<56, 48>>)>>)

(***************************************************************************)
(* BGSAVE from two connections.                                            *)
(***************************************************************************)
\* The snapshot children that are running.
LiveRdbChildren == { p \in DOMAIN child : IsRdbChild(p) }

\* The connections whose BGSAVE has passed the test of rdb_child_pid and has
\* not yet recorded the pid of its child.
BetweenCheckAndRecord == { c \in Clients : cmd[c].op = "bgsave" /\ pc[c] \in {"bg_fork", "bg_record"} }

\* C29: when two connections issue BGSAVE, in any interleaving, at most one
\* snapshot child is created and the other request is refused: no
\* connection's test of rdb_child_pid comes between the test and the
\* recording of the pid of another.
C29_ConcurrentBgSave ==
    /\ Cardinality(LiveRdbChildren) <= 1
    /\ Cardinality(BetweenCheckAndRecord) <= 1

\* A BGSAVE that is tested once a pid is recorded is refused, and creates
\* no child.
BgSaveRefusedOncePidRecorded ==
    [][\A c \in Clients :
         pc[c] = "bg_check" /\ cmd[c].op = "bgsave" /\ rdb_child_pid # None
             /\ pc'[c] # "bg_check" =>
            /\ pc'[c] = "write"
            /\ loc'[c].resp = ErrMsg(BgSaveRunningText)
            /\ child' = child]_vars

\* Two snapshot children run at once, each started by a BGSAVE.
TwoSnapshotChildren == Cardinality(LiveRdbChildren) = 2

\* A BGSAVE was refused while the child of another was running.
BgSaveRefusedReached ==
    \E c \in Clients : \E i \in 1..Len(replies[c]) :
        /\ replies[c][i].cmd.op = "bgsave"
        /\ replies[c][i].frame = ErrMsg(BgSaveRunningText)

(***************************************************************************)
(* Guards and the write of the reply.                                      *)
(***************************************************************************)
\* The task c holds a guard of some shard of the keyspace.
HoldsShard(c) == \E s \in DOMAIN locks : c \in locks[s].w \cup locks[s].r

\* The task c holds a guard of the config lock.
HoldsConfig(c) == c \in cfg_guards

\* C30: no handler holds a guard of the config lock or of a shard of the
\* keyspace while it awaits the write of its reply, on any path, CONFIG GET
\* and a SET refused by NX or XX included; a client that is slow to take its
\* reply does not make the commands of other connections wait.
C30_NoGuardAcrossWrite ==
    \A c \in Clients : pc[c] = "write" => ~HoldsShard(c) /\ ~HoldsConfig(c)

\* The replies written under a guard are those of a refused SET and of the
\* CONFIG GET arms that read the config inside the write statement; every
\* other reply is written with no guard held.
GuardsHeldOnlyThere ==
    \A c \in Clients :
        pc[c] = "write" =>
            /\ HoldsShard(c) => cmd[c].op = "set" /\ loc[c].resp = Null
            /\ HoldsConfig(c) => cmd[c].op = "config_get" /\ cmd[c].key \in GuardedGets

\* A SET waits for the shard whose guard another task holds while its Null
\* reply is being written.
SetWaitsForReply ==
    \E c, d \in Clients :
        /\ pc[c] = "write" /\ HoldsShard(c)
        /\ pc[d] \in {"ce_get", "entry"} /\ cmd[d].op = "set" /\ HeldByOthers(d)

\* A CONFIG SET waits for the read guard that another task holds while its
\* CONFIG GET reply is being written.
ConfigSetWaitsForReply ==
    \E c, d \in Clients :
        /\ pc[c] = "write" /\ HoldsConfig(c)
        /\ pc[d] = "cfg_set" /\ cmd[d] \in ConfigCases /\ ~ENABLED ConfigSetArm(d)

\* A reply is being written with no guard held.
WrittenUnguarded ==
    \E c \in Clients : pc[c] = "write" /\ cmd[c].op = "config_set" /\ loc[c].resp = Ok

(***************************************************************************)
(* BGREWRITEAOF, step by step.                                             *)
(***************************************************************************)
\* A snapshot child that was forked and is not yet reaped.
RdbChildLive == \E p \in DOMAIN child : child[p].kind = "rdb" /\ child[p].st # "reaped"

\* A rewrite child that was started and is not yet reaped.
AofChildLive == \E p \in DOMAIN child : child[p].kind = "aof" /\ child[p].st # "reaped"

\* The step in which connection c tests the pids for its BGREWRITEAOF.
TestsRewrite(c) == pc[c] = "bg_check" /\ cmd[c].op = "bgrewriteaof" /\ pc'[c] # "bg_check"

\* The step in which connection c starts the rewrite.
StartsRewrite(c) == pc[c] = "bg_fork" /\ cmd[c].op = "bgrewriteaof" /\ pc'[c] # "bg_fork"

\* The rewrite child was started and OK is the reply, or starting failed
\* and an error is the reply.
StartedOrFailed(c) ==
    /\ pc'[c] = "write"
    /\ UNCHANGED <<rdb_child_pid, aof_rewrite_scheduled, dict>>
    /\ \/ /\ loc'[c].resp = Ok
          /\ Len(child') = Len(child) + 1
          /\ child'[Len(child')] = AofChild
          /\ aof_child_pid' = Some(Len(child'))
       \/ /\ loc'[c].resp = ErrMsg(BgRewriteErrorText)
          /\ UNCHANGED <<child, aof_child_pid>>

\* C31: a BGREWRITEAOF issued while a snapshot child is live sets
\* aof_rewrite_scheduled, starts no child and replies a status that is no
\* error; issued while a rewrite child is live it replies an error and
\* changes nothing; otherwise it starts the rewrite and replies OK, or
\* replies an error when starting failed.
C31_BgRewriteStep ==
    [][\A c \in Clients :
         /\ TestsRewrite(c) =>
              IF AofChildLive
              THEN /\ pc'[c] = "write" /\ loc'[c].resp.t = "Error"
                   /\ UNCHANGED <<child, rdb_child_pid, aof_child_pid, aof_rewrite_scheduled, dict>>
              ELSE IF RdbChildLive
              THEN /\ pc'[c] = "write" /\ loc'[c].resp.t = "Simple"
                   /\ aof_rewrite_scheduled'
                   /\ UNCHANGED <<child, rdb_child_pid, aof_child_pid, dict>>
              ELSE /\ pc'[c] = "bg_fork"
                   /\ UNCHANGED <<child, rdb_child_pid, aof_child_pid, aof_rewrite_scheduled, dict>>
         /\ StartsRewrite(c) => StartedOrFailed(c)]_vars

\* The same with the recorded pids in the place of the live children: what
\* the arm tests is rdb_child_pid and aof_child_pid.
BgRewriteStepByPid ==
    [][\A c \in Clients :
         /\ TestsRewrite(c) =>
              IF aof_child_pid # None
              THEN /\ pc'[c] = "write" /\ loc'[c].resp = ErrMsg(BgRewriteRunningText)
                   /\ UNCHANGED <<child, rdb_child_pid, aof_child_pid, aof_rewrite_scheduled, dict>>
              ELSE IF rdb_child_pid # None
              THEN /\ pc'[c] = "write" /\ loc'[c].resp = SimpleMsg(ScheduledText)
                   /\ aof_rewrite_scheduled'
                   /\ UNCHANGED <<child, rdb_child_pid, aof_child_pid, dict>>
              ELSE /\ pc'[c] = "bg_fork"
                   /\ UNCHANGED <<child, rdb_child_pid, aof_child_pid, aof_rewrite_scheduled, dict>>
         /\ StartsRewrite(c) => StartedOrFailed(c)]_vars

\* A rewrite child and a snapshot child run at once, the rewrite started by
\* a BGREWRITEAOF that was tested while the snapshot child was live.
RewriteStartedBesideSnapshot ==
    /\ \E p \in DOMAIN child : IsRdbChild(p)
    /\ \E p \in DOMAIN child : child[p].kind = "aof" /\ child[p].st = "running"

\* A BGREWRITEAOF was answered with the status of a scheduled rewrite.
RewriteScheduledReached ==
    /\ aof_rewrite_scheduled
    /\ \E c \in Clients : \E i \in 1..Len(replies[c]) :
          replies[c][i].cmd.op = "bgrewriteaof" /\ replies[c][i].frame = SimpleMsg(ScheduledText)

(***************************************************************************)
(* The end of a background save, while the clock runs.                     *)
(***************************************************************************)
ReapBudget == <<2, 1>>

ReapMenu == { BgSave, Save }

InitReap ==
    /\ dict = [k \in Keys |-> IF k = BgKey THEN DictValue(String(<<49>>), None) ELSE NoEntry]
    /\ now = 0
    /\ InitLocks(OneShard)
    /\ InitClients(ReapBudget)
    /\ rdb_child_pid = None
    /\ aof_child_pid = None
    /\ aof_rewrite_scheduled = FALSE
    /\ child = <<>>
    /\ rdb_file = [st |-> "absent"]
    /\ last_save_time = 0
    /\ FrameUnused /\ RdbUnused /\ ConnUnused

NextReap ==
    \/ \E c \in Clients : ReadFrame(c, ReapMenu)
    \/ \E c \in Clients : BgCheck(c)
    \/ \E c \in Clients : Fork(c)
    \/ \E c \in Clients : BgRecord(c)
    \/ \E c \in Clients : SaveCreate(c)
    \/ \E c \in Clients : SaveShard(c)
    \/ \E c \in Clients : SaveDone(c)
    \/ \E c \in Clients : WriteFrame(c)
    \/ \E p \in DOMAIN child : ChildCreate(p)
    \/ \E p \in DOMAIN child : ChildSaveShard(p)
    \/ \E p \in DOMAIN child : ChildExit(p)
    \/ \E p \in DOMAIN child : BackgroundSaveDone(p)
    \/ Tick

SpecReap == InitReap /\ [][NextReap]_vars

\* The step in which the parent handles the exit of the snapshot child p.
HandlesExit(p) ==
    /\ p \in DOMAIN child
    /\ child[p].kind = "rdb" /\ child[p].st = "exited"
    /\ child'[p].st = "reaped"

\* The step in which connection c tests rdb_child_pid for a SAVE or BGSAVE.
TestsSave(c) == pc[c] = "bg_check" /\ cmd[c].op \in {"save", "bgsave"} /\ pc'[c] # "bg_check"

\* Some snapshot child was handled.
SomeReaped == \E p \in DOMAIN child : child[p].kind = "rdb" /\ child[p].st = "reaped"

\* C32: when the parent handles the exit of the snapshot child it clears
\* rdb_child_pid and sets last_save_time to the time the save completed, a
\* time between the start of the child and the handling of its exit; from
\* then on BGSAVE and SAVE are accepted again.
C32_BgSaveDone ==
    [][/\ \A p \in DOMAIN child :
            HandlesExit(p) =>
               /\ rdb_child_pid' = None
               /\ last_save_time' \in child[p].now..now
       /\ \A c \in Clients :
            TestsSave(c) /\ rdb_child_pid = None =>
               pc'[c] = (IF cmd[c].op = "save" THEN "save_create" ELSE "bg_fork")]_vars

\* The same without last_save_time.
ReapClearsPid ==
    [][/\ \A p \in DOMAIN child : HandlesExit(p) => rdb_child_pid' = None
       /\ \A c \in Clients :
            TestsSave(c) /\ rdb_child_pid = None =>
               pc'[c] = (IF cmd[c].op = "save" THEN "save_create" ELSE "bg_fork")]_vars

\* No step of the server writes last_save_time.
LastSaveTimeNeverSet == last_save_time = 0

\* After a child that started when the clock had moved was handled, a
\* second BGSAVE was accepted.
AcceptedAfterReap ==
    /\ SomeReaped
    /\ \E p \in DOMAIN child : child[p].st = "reaped" /\ child[p].now > 0
    /\ \E c \in Clients :
          /\ Len(replies[c]) = 2
          /\ replies[c][1].cmd.op = "bgsave" /\ replies[c][1].frame = Ok
          /\ replies[c][2].cmd.op = "bgsave" /\ replies[c][2].frame = Ok

(***************************************************************************)
(* rename and expire_at on a key that is missing or has expired.           *)
(***************************************************************************)
\* PEXPIREAT key ms: the time travels in incr.
PExpireAt(key, ms) == [Cmd("pexpireat", key) EXCEPT !.incr = ms]

\* Dict::expire_at: self.dict.get_mut(key), the store of the new time, and
\* the reply, 1 for true and 0 for false.
DictExpireAt(c) ==
    /\ pc[c] = "expire_at"
    /\ CanExclude(locks[shard_of[cmd[c].key]])
    /\ IF dict[cmd[c].key] # NoEntry
       THEN /\ dict' = [dict EXCEPT ![cmd[c].key].expire_at = Some(cmd[c].incr)]
            /\ loc' = [loc EXCEPT ![c].resp = Integer(1), ![c].changed = TRUE]
       ELSE /\ loc' = [loc EXCEPT ![c].resp = Integer(0)]
            /\ UNCHANGED dict
    /\ pc' = [pc EXCEPT ![c] = "write"]
    /\ UNCHANGED <<locks, shard_of, now, cmd, replies, budget, db_mutex>>
    /\ UNCHANGED <<frameVars, bgVars, rdbVars, connVars>>

MutateBudget == <<2>>

\* The entry that expires once the clock has moved.
Lapsing == DictValue(String(<<49>>), Some(0))

Standing == DictValue(String(<<50>>), None)

MutateMenu ==
    { Rename(OldKey, NewKey), PExpireAt(OldKey, MaxClock + 1), Get(OldKey), Get(NewKey) }

InitMutate ==
    /\ dict \in { [k \in Keys |-> IF k = OldKey THEN o ELSE e] :
                    o \in {NoEntry, Lapsing}, e \in {NoEntry, Standing} }
    /\ now = 0
    /\ InitLocks(ShardMaps)
    /\ InitClients(MutateBudget)
    /\ FrameUnused /\ BgUnused /\ RdbUnused /\ ConnUnused

NextMutate ==
    \/ \E c \in Clients : ReadFrame(c, MutateMenu)
    \/ \E c \in Clients : RenameRemove(c)
    \/ \E c \in Clients : RenameInsert(c)
    \/ \E c \in Clients : DictExpireAt(c)
    \/ \E c \in Clients : AcquireShared(c)
    \/ \E c \in Clients : CheckExpired(c)
    \/ \E c \in Clients : Body(c)
    \/ \E c \in Clients : WriteFrame(c)
    \/ Tick

SpecMutate == InitMutate /\ [][NextMutate]_vars

\* The key k is missing from the keyspace d at the time t, or is there with
\* an expire_at that has passed.
LogicallyAbsent(d, k, t) == d[k] = NoEntry \/ is_expired(d[k], t)

\* The step in which connection c begins its rename or expire_at.
Mutates(c) == pc[c] \in {"rn_remove", "expire_at"} /\ pc'[c] # pc[c]

\* The mutator returned false: nothing was moved and nothing stored.
ReturnsFalse(c) ==
    /\ pc'[c] = "write"
    /\ loc'[c].resp = (IF cmd[c].op = "rename" THEN ErrMsg(NoSuchKeyText) ELSE Integer(0))
    /\ ~loc'[c].changed

\* C33: expire_at and rename applied to a key that is missing, or that has
\* an expire_at in the past, return false and leave the keyspace as it is:
\* an expired entry is not moved to the new name and gets no new expiry.
C33_MutatorsOnAbsent ==
    [][\A c \in Clients :
         Mutates(c) /\ LogicallyAbsent(dict, cmd[c].key, now) =>
            /\ ReturnsFalse(c)
            /\ LiveAt(dict', now) = LiveAt(dict, now)
            /\ dict'[cmd[c].key] \in {NoEntry, dict[cmd[c].key]}]_vars

\* The same for a key that is missing from the map.
MutatorsOnMissing ==
    [][\A c \in Clients :
         Mutates(c) /\ dict[cmd[c].key] = NoEntry => ReturnsFalse(c) /\ dict' = dict]_vars

\* An entry whose time had passed was moved over a standing entry.
ExpiredMoved ==
    /\ dict[NewKey] = Lapsing /\ dict[OldKey] = NoEntry
    /\ now > 0
    /\ \E c \in Clients : \E i \in 1..Len(replies[c]) :
          replies[c][i].cmd.op = "rename" /\ replies[c][i].frame = Ok

\* An entry whose time had passed was given a new time and is read again.
ExpiredRevived ==
    \E c \in Clients :
        /\ Len(replies[c]) = 2
        /\ replies[c][1].cmd.op = "pexpireat" /\ replies[c][1].frame = Integer(1)
        /\ replies[c][2].cmd = Get(OldKey) /\ replies[c][2].frame = SerializeObject(Lapsing.value)

\* rename and expire_at of a key that is missing were answered with false.
MissingAnswered ==
    \E c \in Clients :
        /\ Len(replies[c]) = 2
        /\ replies[c][1].frame = ErrMsg(NoSuchKeyText)
        /\ replies[c][2].cmd.op = "pexpireat" /\ replies[c][2].frame = Integer(0)

(***************************************************************************)
(* check_expired and the lock of its shard.                                *)
(***************************************************************************)
\* The task c holds the shared reference that self.dict.get(key) returned
\* for the key it works on.
HoldsOwnRef(c) == c \in locks[shard_of[cmd[c].key]].r

\* C34: check_expired never asks for the exclusive lock of a shard, to
\* remove the entry, while the same task holds the shared reference it
\* obtained on that shard; so every operation on the keyspace comes to its
\* end, also on a key that has expired.
C34_NoSelfDeadlock ==
    \A c \in Clients : pc[c] = "ce_remove" => ~HoldsOwnRef(c) /\ (~HeldByOthers(c) => ENABLED AcquireExclusive(c))

\* Only an entry whose time has passed brings a task to the removal, and a
\* task that found its key live or missing is never made to wait for itself.
OnlyExpiredWaits ==
    \A c \in Clients :
        /\ pc[c] = "ce_remove" => dict[cmd[c].key] # NoEntry /\ is_expired(dict[cmd[c].key], now)
        /\ pc[c] \in {"entry", "body", "get"} /\ ~HeldByOthers(c) =>
              ENABLED (AcquireExclusive(c) \/ AcquireShared(c) \/ Body(c))

\* A task waits for the lock that its own reference holds, with no other
\* task on the shard.
SelfDeadlockReached ==
    \E c \in Clients :
        pc[c] = "ce_remove" /\ HoldsOwnRef(c) /\ ~HeldByOthers(c) /\ ~ENABLED AcquireExclusive(c)

(***************************************************************************)
(* Frame::parse on every buffer and cursor position.                       *)
(***************************************************************************)
\* Frame::parse with the allocation of the array branch: Vec::with_capacity
\* of a length that is huge either succeeds or ends the process.
ParseOutcomes(buf, pos) ==
    LET h == ParseInto(buf, pos + 1, FALSE)
    IN  IF pos < Len(buf) /\ buf[pos + 1] = Ch.star /\ h.res = "ok" /\ h.n >= HugeNum
        THEN {Parse(buf, pos), PR("abort", NoFrame, h.pos)}
        ELSE {Parse(buf, pos)}

Prefixes(s) == { SubSeq(s, 1, n) : n \in 0..Len(s) }

\* What an encoder produces, whole or cut short.
EncodedInputs == UNION { Prefixes(Wire(f)) : f \in LeafFrames \cup InnerArrays }

\* "$-2", "$-3", "$-2" with bytes behind it: a bulk length below -1.
BulkBelowNull ==
    { <<Ch.dollar, Ch.minus, 50, Ch.cr, Ch.lf>>, <<Ch.dollar, Ch.minus, 51, Ch.cr, Ch.lf>>,
      <<Ch.dollar, Ch.minus, 50, Ch.cr, Ch.lf, Ch.a, Ch.cr, Ch.lf>> }

\* "$1\r\naXY", "$0\r\nXY": a payload that is not followed by CR LF.
BulkNoCrlf ==
    { <<Ch.dollar, 49, Ch.cr, Ch.lf, Ch.a, 88, 89>>, <<Ch.dollar, Ch.zero, Ch.cr, Ch.lf, 88, 89>> }

\* "*-1", "*-2": an array length that is negative.
ArrayNegative ==
    { <<Ch.star, Ch.minus, 49, Ch.cr, Ch.lf>>, <<Ch.star, Ch.minus, 50, Ch.cr, Ch.lf>> }

\* "*1073741824": an array length that is very large.
ArrayHuge == { <<Ch.star>> \o FmtNat(HugeNum) \o CRLF }

\* The inputs the claim names, for which no frame is the answer.
NamedInputs == BulkBelowNull \cup BulkNoCrlf \cup ArrayNegative \cup ArrayHuge

ParseInputs ==
    EncodedInputs \cup NamedInputs \cup Malformed \cup UNION { Prefixes(m) : m \in NamedInputs }

InitParse ==
    /\ stream \in ParseInputs
    /\ fed \in 0..Len(stream)
    /\ sent = <<>> /\ buffer = stream /\ got = <<>>
    /\ last = [entry |-> fed, res |-> "unset", pos |-> 0]
    /\ rpc = "parse"
    /\ partial = FALSE
    /\ rt = Unset
    /\ KvUnused /\ BgUnused /\ RdbUnused /\ ConnUnused

\* Frame::parse is called with the cursor at fed.
ParseAt ==
    /\ rpc = "parse"
    /\ \E r \in ParseOutcomes(buffer, fed) :
        /\ last' = [entry |-> fed, res |-> r.res, pos |-> r.pos]
        /\ rt' = r
    /\ rpc' = "parsed"
    /\ UNCHANGED <<stream, sent, fed, buffer, got, partial>>
    /\ UNCHANGED <<kvVars, bgVars, rdbVars, connVars>>

NextParse == ParseAt

SpecParse == InitParse /\ [][NextParse]_vars

\* C35: Frame::parse is total: for every buffer and cursor position it
\* returns a frame, "incomplete" or a protocol error and never panics or
\* aborts; a bulk length below -1, a negative or very large array length
\* and a bulk payload that is not followed by CR LF are answered with a
\* protocol error or with "incomplete".
C35_ParseTotal ==
    rpc = "parsed" =>
        /\ last.res \in {"frame", "none", "err"}
        /\ stream \in NamedInputs /\ fed = 0 => last.res \in {"none", "err"}

\* On what an encoder produces, whole or cut short, parse is total from the
\* first byte, and it is total on a negative array length.
ParseTotalOnEncoded ==
    rpc = "parsed" =>
        /\ stream \in EncodedInputs /\ fed = 0 => last.res \in {"frame", "none"}
        /\ stream \in ArrayNegative /\ fed = 0 => last.res = "err"

\* "$-2" made parse panic.
ParsePanicked == rpc = "parsed" /\ stream \in BulkBelowNull /\ fed = 0 /\ last.res = "panic"

\* "$1\r\naXY" was taken for the bulk "a" and the cursor moved past "XY".
NoCrlfAccepted ==
    /\ rpc = "parsed" /\ stream = <<Ch.dollar, 49, Ch.cr, Ch.lf, Ch.a, 88, 89>> /\ fed = 0
    /\ rt.res = "frame" /\ rt.frame = Bulk(<<Ch.a>>) /\ rt.pos = Len(stream)

\* The allocation for a very large array ended the process.
HugeArrayAborted == rpc = "parsed" /\ stream \in ArrayHuge /\ fed = 0 /\ last.res = "abort"

(***************************************************************************)
(* Command::from on every complete frame.                                  *)
(***************************************************************************)
FromBudget == <<3>>

\* Complete frames that are no array.
NonArrays == { Simple(Words.PING), Error(Words.x), Integer(12), Bulk(Words.GET), Null }

\* The empty array, arrays whose first element is no string, and requests.
ArrayFrames ==
    { Array(<<>>), Array(<<Integer(1)>>), Array(<<Null, Bulk(ConnKey)>>),
      Array(<<Array(<<Bulk(Words.GET)>>)>>),
      Request(<<Words.GET, ConnKey>>), Request(<<Words.GET>>),
      Request(<<Words.SET, ConnKey, Words.x>>), Request(<<Words.FOO>>) }

FromWires == { Wire(f) : f \in NonArrays \cup ArrayFrames }

InitFrom ==
    /\ dict = [k \in Keys |-> NoEntry]
    /\ now = 0
    /\ InitLocks(OneShard)
    /\ InitClients(FromBudget)
    /\ index = [c \in DOMAIN FromBudget |-> 0]
    /\ recv = [c \in DOMAIN FromBudget |-> <<>>]
    /\ quit_ch = [c \in DOMAIN FromBudget |-> FALSE]
    /\ config = <<>> /\ cfg_guards = {}
    /\ FrameUnused /\ BgUnused /\ RdbUnused

NextFrom ==
    \/ \E c \in Clients : ReadRequest(c, FromWires)
    \/ \E c \in Clients : AcquireShared(c)
    \/ \E c \in Clients : AcquireExclusive(c)
    \/ \E c \in Clients : Body(c)
    \/ \E c \in Clients : Arm(c)
    \/ \E c \in Clients : WriteFrame(c)

SpecFrom == InitFrom /\ [][NextFrom]_vars

\* The step in which read_frame hands the complete frame f to the handler
\* of connection c.
Receives(c, f) ==
    /\ Len(recv'[c]) = Len(recv[c]) + 1
    /\ recv'[c][Len(recv'[c])] = f

\* The frame was answered with the syntax error and the connection reads on.
SyntaxErrorKept(c, f) ==
    /\ pc'[c] = "idle"
    /\ replies'[c] = Append(replies[c], Written(ErrMsg(SyntaxErrText), f))

\* C36: Command::from is total over complete frames: every complete frame
\* received as a request, a frame that is no array and the empty array
\* included, gives a command, or a parse error that is answered with the
\* syntax error while the connection is kept; it never panics.
C36_CommandFromTotal ==
    [][\A c \in Clients : \A f \in NonArrays \cup ArrayFrames :
          Receives(c, f) =>
             /\ pc'[c] # "panicked"
             /\ \/ SyntaxErrorKept(c, f)
                \/ pc'[c] \notin {"idle", "panicked"} /\ replies'[c] = replies[c]]_vars

\* The same for the frames that are arrays.
CommandFromTotalOnArrays ==
    [][\A c \in Clients : \A f \in ArrayFrames :
          Receives(c, f) =>
             /\ pc'[c] # "panicked"
             /\ \/ SyntaxErrorKept(c, f)
                \/ pc'[c] \notin {"idle", "panicked"} /\ replies'[c] = replies[c]]_vars

\* A frame that is no array ended the task of its connection.
NonArrayPanicked ==
    \E c \in Clients :
        pc[c] = "panicked" /\ recv[c] # <<>> /\ recv[c][Len(recv[c])] \in NonArrays

\* The empty array was answered with the syntax error, and the request
\* after it was served.
EmptyArrayAnswered ==
    \E c \in Clients :
        /\ Len(replies[c]) = 2
        /\ replies[c][1] = Written(ErrMsg(SyntaxErrText), Array(<<>>))
        /\ replies[c][2].req = Request(<<Words.GET, ConnKey>>) /\ replies[c][2].frame = Null

(***************************************************************************)
(* The INCR family at the ends of the 64-bit range.                        *)
(***************************************************************************)
OverflowBudget == <<3>>

\* SETs that bring the key to the ends of the range, the four commands with
\* deltas that leave it there or take it across, and GET.
OverflowRequests ==
    { Request(<<Words.SET, ConnKey, FmtInt(MaxI64)>>),
      Request(<<Words.SET, ConnKey, FmtInt(MinI64)>>),
      Request(<<Words.INCR, ConnKey>>), Request(<<Words.DECR, ConnKey>>),
      Request(<<Words.INCRBY, ConnKey, FmtInt(MaxI64)>>),
      Request(<<Words.DECRBY, ConnKey, FmtInt(MinI64)>>),
      Request(<<Words.DECRBY, ConnKey, <<49>>>>),
      Request(<<Words.GET, ConnKey>>) }

OverflowWires == { Wire(r) : r \in OverflowRequests }

InitOverflow ==
    /\ dict = [k \in Keys |-> NoEntry]
    /\ now = 0
    /\ InitLocks(OneShard)
    /\ InitClients(OverflowBudget)
    /\ index = [c \in DOMAIN OverflowBudget |-> 0]
    /\ recv = [c \in DOMAIN OverflowBudget |-> <<>>]
    /\ quit_ch = [c \in DOMAIN OverflowBudget |-> FALSE]
    /\ config = <<>> /\ cfg_guards = {}
    /\ FrameUnused /\ BgUnused /\ RdbUnused

NextOverflow ==
    \/ \E c \in Clients : ReadRequest(c, OverflowWires)
    \/ \E c \in Clients : AcquireShared(c)
    \/ \E c \in Clients : CheckExpired(c)
    \/ \E c \in Clients : AcquireExclusive(c)
    \/ \E c \in Clients : Body(c)
    \/ \E c \in Clients : IncDecStore(c)
    \/ \E c \in Clients : WriteFrame(c)
    \/ \E c \in Clients : PeerClosed(c)

SpecOverflow == InitOverflow /\ [][NextOverflow]_vars

\* The requests of the INCR family among them.
OverflowIncDec == { r \in OverflowRequests : r.a[1].b \notin {Words.SET, Words.GET} }

\* The handler of c comes to the addition with n read from the key, for the
\* request f.
Adds(c, f) == pc[c] = "store" /\ pc'[c] # "store" /\ loc[c].req = f

\* C37: an INCR, DECR, INCRBY or DECRBY whose result n + delta would fall
\* outside the signed 64-bit range (DECRBY with the minimum 64-bit integer
\* as its decrement included) replies 'ERR value is not an integer or out
\* of range' and leaves the stored value unchanged; a wrapped result is
\* never stored and the handler never aborts.
C37_IncrOverflow ==
    /\ [](\A c \in Clients : pc[c] # "panicked")
    /\ [][\A c \in Clients : \A f \in OverflowIncDec :
            Adds(c, f) /\ ~InI64(loc[c].n + AskedDelta(f)) =>
                /\ pc'[c] = "write"
                /\ loc'[c].resp = ErrMsg(NotIntText)
                /\ dict' = dict]_vars

\* What the addition does with a result that leaves the range, or with the
\* negated minimum as its delta: the handler is aborted with the value
\* unchanged, or the wrapped sum is stored and replied.  Any other result
\* is stored and replied as it is.
IncrOverflowWrapsOrAborts ==
    [][\A c \in Clients : \A f \in OverflowIncDec :
          Adds(c, f) =>
            LET v == loc[c].n + AskedDelta(f)
            IN  IF InI64(v) /\ InI64(AskedDelta(f))
                THEN /\ pc'[c] = "write"
                     /\ loc'[c].resp = Integer(v)
                     /\ dict'[ConnKey].value.s = FmtInt(v)
                ELSE \/ pc'[c] = "panicked" /\ dict' = dict
                     \/ /\ pc'[c] = "write"
                        /\ loc'[c].resp = Integer(WrapI64(v))
                        /\ dict'[ConnKey].value.s = FmtInt(WrapI64(v))]_vars

\* INCR on the largest integer was answered with the smallest, which GET
\* then returns.
WrappedStored ==
    \E c \in Clients :
        /\ Asked(c) = <<Request(<<Words.SET, ConnKey, FmtInt(MaxI64)>>),
                        Request(<<Words.INCR, ConnKey>>), GetKey>>
        /\ Got(c) = <<Ok, Integer(MinI64), Bulk(FmtInt(MinI64))>>

\* INCR on the largest integer aborted the handler.
IncrAborted ==
    \E c \in Clients :
        /\ pc[c] = "panicked"
        /\ loc[c].req = Request(<<Words.INCR, ConnKey>>)
        /\ dict[ConnKey].value.s = FmtInt(MaxI64)

\* DECRBY of the smallest integer on an absent key stored the smallest
\* integer.
DecrByMinStored ==
    \E c \in Clients :
        /\ Asked(c) = <<Request(<<Words.DECRBY, ConnKey, FmtInt(MinI64)>>)>>
        /\ Got(c) = <<Integer(MinI64)>>
        /\ dict[ConnKey].value.s = FmtInt(MinI64)

(***************************************************************************)
(* SET with a time to live at the ends of the 64-bit range.                *)
(***************************************************************************)
ExpiryBudget == <<3>>

\* The least number of seconds whose milliseconds do not fit u64.
SecsTooMany == (MaxU64 \div 1000) + 1

SetPxNegative == Request(<<Words.SET, ConnKey, Words.y, <<80, 88>>, FmtInt(-1)>>)

SetExNegative == Request(<<Words.SET, ConnKey, Words.y, <<69, 88>>, FmtInt(-1)>>)

SetExTooMany == Request(<<Words.SET, ConnKey, Words.y, <<69, 88>>, FmtInt(SecsTooMany)>>)

\* SETs whose time to live is negative or does not fit.
ExpiryBad == { SetPxNegative, SetExNegative, SetExTooMany }

SetPxOne == Request(<<Words.SET, ConnKey, Words.b, <<80, 88>>, <<49>>>>)

ExpiryGood == { SetX, SetPxOne, GetKey }

ExpiryWires == { Wire(r) : r \in ExpiryBad \cup ExpiryGood }

InitExpiry ==
    /\ dict = [k \in Keys |-> NoEntry]
    /\ now = 0
    /\ InitLocks(OneShard)
    /\ InitClients(ExpiryBudget)
    /\ index = [c \in DOMAIN ExpiryBudget |-> 0]
    /\ recv = [c \in DOMAIN ExpiryBudget |-> <<>>]
    /\ quit_ch = [c \in DOMAIN ExpiryBudget |-> FALSE]
    /\ config = <<>> /\ cfg_guards = {}
    /\ FrameUnused /\ BgUnused /\ RdbUnused

NextExpiry ==
    \/ \E c \in Clients : ReadRequest(c, ExpiryWires)
    \/ \E c \in Clients : AcquireShared(c)
    \/ \E c \in Clients : CheckExpired(c)
    \/ \E c \in Clients : AcquireExclusive(c)
    \/ \E c \in Clients : Body(c)
    \/ \E c \in Clients : WriteFrame(c)
    \/ \E c \in Clients : PeerClosed(c)
    \/ Tick

SpecExpiry == InitExpiry /\ [][NextExpiry]_vars

\* The time to live, in milliseconds on u64, that Set::from makes of such a
\* request where nothing checks the arithmetic.
WrappedMs(f) ==
    CASE f = SetPxNegative -> WrapU64(-1)
      [] f = SetExNegative -> WrapU64(WrapU64(-1) * 1000)
      [] OTHER -> WrapU64(SecsTooMany * 1000)

\* C38: a SET with EX secs or PX ms whose argument is negative, or for which
\* secs * 1000 or now + ms does not fit in unsigned 64 bits, is rejected
\* with an error and neither creates nor modifies the key; no key is ever
\* stored with an expire_at that comes from reading a negative number as
\* unsigned or from wrapping.
C38_SetExpiryRange ==
    /\ [](\A c \in Clients : \A i \in 1..Len(replies[c]) :
             replies[c][i].req \in ExpiryBad => replies[c][i].frame.t = "Error")
    /\ [][\A c \in Clients : \A f \in ExpiryBad :
             Receives(c, f) \/ (loc[c].req = f /\ pc[c] # "idle") =>
                 dict' = dict /\ pc'[c] # "panicked"]_vars

\* What the code does with these requests: Set::from accepts them or is
\* aborted in the product; generic_set stores the value with the wrapped
\* expire_at and replies OK, or is aborted in the sum.  The other SETs are
\* never aborted and store now + ms.
SetExpiryWrapsOrAborts ==
    [][\A c \in Clients :
         /\ \A f \in ExpiryBad :
              /\ Receives(c, f) => pc'[c] \in {"ce_get", "panicked"} /\ dict' = dict
              /\ loc[c].req = f /\ pc[c] = "body" /\ pc'[c] # "body" =>
                    \/ pc'[c] = "panicked"
                    \/ /\ pc'[c] = "write" /\ loc'[c].resp = Ok
                       /\ dict'[ConnKey] =
                            DictValue(String(Words.y), {WrapU64(now + WrappedMs(f))})
         /\ \A f \in ExpiryGood :
              /\ Receives(c, f) \/ (loc[c].req = f /\ pc[c] # "idle") => pc'[c] # "panicked"
              /\ f = SetPxOne /\ loc[c].req = f /\ pc[c] = "body" /\ pc'[c] # "body" =>
                    dict'[ConnKey] = DictValue(String(Words.b), {now + 1})]_vars

\* SET PX -1 was answered OK and the key is read back; its expire_at is
\* the largest unsigned number.
NegativeStored ==
    \E c \in Clients :
        /\ Asked(c) = <<SetPxNegative, GetKey>>
        /\ Got(c) = <<Ok, Bulk(Words.y)>>
        /\ dict[ConnKey].expire_at = {MaxU64}

\* SET EX with too many seconds was answered OK; the expire_at stored is
\* the wrapped product.
WrappedExpiryStored ==
    \E c \in Clients :
        /\ Asked(c) = <<SetExTooMany>> /\ Got(c) = <<Ok>>
        /\ dict[ConnKey] # NoEntry
        /\ \E t \in 0..MaxClock :
              dict[ConnKey].expire_at = {(SecsTooMany * 1000 - MaxU64 - 1) + t}

\* SET EX -1 aborted the handler in Set::from.
SetFromAborted ==
    \E c \in Clients :
        /\ pc[c] = "panicked" /\ Len(recv[c]) = 1 /\ recv[c][1] = SetExNegative
        /\ replies[c] = <<>>

\* SET PX -1 on a present key aborted generic_set after the value was
\* replaced: the key has the new value and no reply was written.
SetAbortedHalfDone ==
    \E c \in Clients :
        /\ pc[c] = "panicked"
        /\ Asked(c) = <<SetPxOne>> /\ recv[c] = <<SetPxOne, SetPxNegative>>
        /\ dict[ConnKey] = DictValue(String(Words.y), {1})

(***************************************************************************)
(* Server::load on streams that are no snapshot file.                      *)
(***************************************************************************)
\* The clock when load starts.
LoadClocks == {0, 4}

NoName == <<>>

\* Snapshot files of one key, the empty name, whose value has no bytes and
\* no items: what load_string_object reads of them is what was written.
WholeFiles ==
    { ServerSave(0, <<RdbEntry(NoName, v, e)>>, 0) :
        v \in {String(<<>>), List(<<>>), Hash(<<>>)}, e \in {None, Some(5)} }

\* A file cut short: the end-of-file opcode and possibly more is missing.
Truncated == UNION { Prefixes(f) \ {f} : f \in WholeFiles }

SelectZero32 == <<REDIS_RDB_OPCODE_SELECTDB>> \o U32(0)

\* A string record of the empty name with an empty value.
EmptyRecord == <<REDIS_RDB_TYPE_STRING>> \o U32(0) \o U32(0)

BadMagic == <<82, 69, 68, 73, 83, 48, 48, 48, 55>> \o SelectZero32 \o <<REDIS_RDB_OPCODE_EOF>>

BadDbIndex ==
    { Magic \o <<REDIS_RDB_OPCODE_SELECTDB>> \o U32(i) \o <<REDIS_RDB_OPCODE_EOF>> : i \in {1, 2} }

\* A record whose type byte is none of the five.
UnknownType ==
    { Magic \o SelectZero32 \o <<b>> \o U32(0) \o U32(0) \o <<REDIS_RDB_OPCODE_EOF>> :
        b \in {5, 9, 251} }

\* An expire opcode followed by an opcode that starts no record.
ExpireThenOpcode ==
    { Magic \o SelectZero32 \o <<REDIS_RDB_OPCODE_EXPIRETIME_MS>> \o U64(5) \o rest :
        rest \in { <<REDIS_RDB_OPCODE_EOF>>,
                   SelectZero32 \o <<REDIS_RDB_OPCODE_EOF>>,
                   <<REDIS_RDB_OPCODE_EXPIRETIME>> \o U32(0) \o EmptyRecord
                       \o <<REDIS_RDB_OPCODE_EOF>> } }

\* A record before any SELECTDB, without an expire and with one.
RecordFirst ==
    { Magic \o EmptyRecord \o <<REDIS_RDB_OPCODE_EOF>>,
      Magic \o <<REDIS_RDB_OPCODE_EXPIRETIME_MS>> \o U64(1) \o EmptyRecord
            \o <<REDIS_RDB_OPCODE_EOF>> }

\* A good record followed by one of an unknown type.
RecordThenUnknown ==
    Magic \o SelectZero32 \o EmptyRecord \o <<9>> \o U32(0) \o <<REDIS_RDB_OPCODE_EOF>>

MalformedStreams ==
    Truncated \cup {BadMagic} \cup BadDbIndex \cup UnknownType \cup ExpireThenOpcode
        \cup RecordFirst \cup {RecordThenUnknown}

InitLoad ==
    /\ \E bytes \in MalformedStreams \cup WholeFiles, t \in LoadClocks :
         /\ rdb_bytes = bytes
         /\ rdb_src = [st |-> "saved", entries |-> <<>>, saved_at |-> 0, loaded_at |-> t]
    /\ rdb_out = [st |-> "none"]
    /\ ID = 1 /\ dbs = {0}
    /\ FrameUnused /\ KvUnused /\ BgUnused /\ ConnUnused

NextLoad == RdbLoad

SpecLoad == InitLoad /\ [][NextLoad]_vars

\* C39: Server::load on a malformed stream (bad magic, a SELECTDB index of
\* 1 or more, an unknown record type byte, an expire opcode followed by an
\* opcode that is no record, a record before any SELECTDB, truncated input)
\* returns an error and never panics, and a load that returns an error has
\* inserted no key into the keyspace.
C39_LoadFailures ==
    rdb_out.st = "done" =>
        /\ rdb_bytes \in MalformedStreams => rdb_out.res = "err"
        /\ rdb_out.res = "err" => DOMAIN rdb_out.dict = {}

\* Load returns an error, without a panic, on a bad magic, on a SELECTDB
\* index of 1 or more, on truncated input, and on a record that has no
\* expire and comes before any SELECTDB; it returns Ok on the whole files.
LoadRejectsFraming ==
    rdb_out.st = "done" =>
        /\ rdb_bytes \in Truncated \cup {BadMagic} \cup BadDbIndex
                            \cup {Magic \o EmptyRecord \o <<REDIS_RDB_OPCODE_EOF>>}
             => rdb_out.res = "err"
        /\ rdb_bytes \in {BadMagic} \cup BadDbIndex \cup RecordFirst
             => DOMAIN rdb_out.dict = {}
        /\ rdb_bytes \in WholeFiles => rdb_out.res = "ok"

\* A record of an unknown type made load panic.
LoadPanicked ==
    rdb_out.st = "done" /\ rdb_bytes \in UnknownType /\ rdb_out.res = "panic"

\* Load returned an error on a file cut short after its first record, and
\* the key of that record is in the keyspace.
LoadErrorKeptKey ==
    /\ rdb_out.st = "done" /\ rdb_bytes \in Truncated /\ rdb_out.res = "err"
    /\ DOMAIN rdb_out.dict = {NoName}

\* A record before any SELECTDB whose expire had passed was skipped, and
\* load returned Ok.
LoadAcceptedRecordFirst ==
    rdb_out.st = "done" /\ rdb_bytes \in RecordFirst /\ rdb_out.res = "ok"

(***************************************************************************)
(* DatabaseRef::new and the index that Server::save writes.                *)
(***************************************************************************)
\* The handles made in one process.
MaxHandles == 3

\* The keyspaces saved: empty, or the empty name with one value.
HandleKeyspaces ==
    {<<>>} \cup { <<RdbEntry(NoName, v, e)>> :
                    v \in {String(<<>>), List(<<>>), Hash(<<>>)}, e \in {None, Some(5)} }

InitHandles ==
    /\ ID = 0
    /\ dbs = None
    /\ \E ks \in HandleKeyspaces, t \in LoadClocks :
         rdb_src = [st |-> "new", entries |-> ks, saved_at |-> 0, loaded_at |-> t]
    /\ rdb_bytes = <<>>
    /\ rdb_out = [st |-> "none"]
    /\ FrameUnused /\ KvUnused /\ BgUnused /\ ConnUnused

\* DatabaseRef::new: index is ID.fetch_add(1).
DatabaseRefNew == [index |-> ID, next |-> ID + 1]

\* DatabaseManager::new makes a handle of its own.
DatabaseManagerNew ==
    /\ ID < MaxHandles
    /\ ID' = DatabaseRefNew.next
    /\ UNCHANGED <<dbs, rdb_src, rdb_bytes, rdb_out>>
    /\ UNCHANGED <<frameVars, kvVars, bgVars, connVars>>

\* The server is made: its dbs is a handle from DatabaseRef::new.
ServerNew ==
    /\ dbs = None
    /\ ID < MaxHandles
    /\ dbs' = Some(DatabaseRefNew.index)
    /\ ID' = DatabaseRefNew.next
    /\ rdb_src' = [rdb_src EXCEPT !.st = "ready"]
    /\ UNCHANGED <<rdb_bytes, rdb_out>>
    /\ UNCHANGED <<frameVars, kvVars, bgVars, connVars>>

NextHandles == DatabaseManagerNew \/ ServerNew \/ RdbSave \/ RdbLoad

SpecHandles == InitHandles /\ [][NextHandles]_vars

\* The SELECTDB index of a file: the four bytes after the opcode.
IndexWritten(bytes) == BigEndian(SubSeq(bytes, Len(Magic) + 2, Len(Magic) + 5))

\* C40: the SELECTDB index written by Server::save is always 0, in every
\* reachable state and however many handles were made through
\* DatabaseRef::new, so load never rejects a file written by save for its
\* database index.
C40_SavedIndexZero ==
    /\ rdb_src.st \in {"saved", "loaded"} => IndexWritten(rdb_bytes) = 0
    /\ rdb_out.st = "done" => rdb_out.res = "ok"

\* The index written is that of the server's handle, which is the number
\* of handles made before it; a file of the first handle is accepted.
SavedIndexIsHandleIndex ==
    /\ rdb_src.st \in {"saved", "loaded"} =>
          IndexWritten(rdb_bytes) = The(dbs) /\ The(dbs) < ID
    /\ rdb_out.st = "done" => (rdb_out.res = "ok" <=> dbs = Some(0))
    /\ rdb_out.st = "done" /\ dbs # Some(0) => rdb_out.res = "err" /\ DOMAIN rdb_out.dict = {}

\* The server's handle was the second one made; load refused the file that
\* save wrote.
SavedFileRefused ==
    /\ dbs = Some(1) /\ rdb_out.st = "done" /\ rdb_out.res = "err"
    /\ IndexWritten(rdb_bytes) = 1

\* The server's handle was the first one made, others were made after it,
\* and the file was accepted.
FirstHandleAccepted ==
    /\ dbs = Some(0) /\ ID = MaxHandles /\ rdb_out.st = "done" /\ rdb_out.res = "ok"
    /\ rdb_src.entries # <<>>

====
